---- MODULE Spec2Model ----
(***************************************************************************)
(* netmetr-client: the control-server session (control.py), one            *)
(* measurement pass (measurement.py) and the protocol selection of         *)
(* Netmetr.measure (netmetr.py), as a state machine.                       *)
(*                                                                         *)
(* Python exceptions are modelled by their class name; "none" means the    *)
(* statement completed.  A dictionary key that is missing is the value     *)
(* Absent, Python's None is the value None.                                *)
(*                                                                         *)
(* netmetr.py:172 calls Measurement(proto, test_settings, bind_ip=...),    *)
(* the constructor in measurement.py:21 declares the parameter `settings`  *)
(* only.  The model binds test_settings to `settings`; proto and bind_ip   *)
(* are not read by any line of measurement.py.                             *)
(***************************************************************************)
EXTENDS Integers, Sequences, FiniteSets, TLC

VARIABLES
    pc,            \* position of the caller: constructor, idle, inside measure()
    uuid,          \* ControlServer.uuid
    url_ipv4,      \* ControlServer.url_ipv4
    url_ipv6,      \* ControlServer.url_ipv6
    address,       \* ControlServer.address
    mode,          \* measure(): protocol_mode
    bind_ip,       \* measure_bind(): bind_ip
    i,             \* measure(): index of the for loop over proto_map
    measured,      \* measure(): measured
    result,        \* measure(): result
    exc,           \* exception that left measure() / the constructor
    proto,         \* _measure_protocol(): proto of the running attempt
    phase,         \* which call site runs the attempt: "direct" (line 82) or "contingency" (line 99)
    step,          \* _measure_protocol(): next statement of the running attempt
    natt,          \* number of _measure_protocol calls made by this measure()
    test_settings, \* _measure_protocol(): test_settings
    measurement,   \* _measure_protocol(): measurement (the fields __init__ stores)
    ping_shortest, \* Measurement.measure(): ping_shortest
    speed_results, \* Measurement.measure(): speed_results
    simple_result, \* Measurement.measure(): simple_result
    full_results,  \* Measurement.measure(): full_results
    log,           \* requests sent and commands run by the call made last, in order
    reply,         \* the request and the reply of the session verb called last
    retval,        \* what download_sync_code / download_history returned
    ping_frame,    \* PingMeasurement.measure() run probe by probe: its frame
    speed_call,    \* SpeedMeasurement.measure() run on its own: input and outcome
    flows_call,    \* import_speed_flows() run on its own: artifact, files, outcome
    payload_call,  \* generate_test_result() called twice: inputs, environment, payloads
    cli,           \* __main__.py: the uci store and the Netmetr object of one run
    ping_pair,     \* PingMeasurement.measure() over a series of probes and a reordering of it
    tmp_files,     \* the files SpeedMeasurement.__init__ made for the attempt that still exist
    engine,        \* SpeedMeasurement.measure() lines 188-204: the engine, its pipes, the runner
    hist           \* Netmetr.download_history(): the history file and the temporary file

extra   == <<ping_pair, engine, hist>>
session == <<uuid, url_ipv4, url_ipv6>>
verb    == <<reply, retval>>
units   == <<ping_frame, speed_call, flows_call, payload_call, cli, extra>>
aside   == <<verb, units>>
call    == <<mode, bind_ip, i, measured, result, natt>>
locals  == <<test_settings, measurement, ping_shortest, speed_results, simple_result, full_results,
             tmp_files>>
vars    == <<pc, session, address, call, exc, proto, phase, step, locals, log, aside>>

----------------------------------------------------------------------------
(* Bounds of the model *)

\* numbers of ping probes a testRequest response may ask for: 0..MaxPings
MaxPings == 2
\* number of samples in one raw time series given to import_speed_flows run
\* on its own: 0..MaxSamples
MaxSamples == 3
\* self.count of a PingMeasurement run probe by probe: 0..MaxProbes
MaxProbes == 3
\* number of "}"-separated pieces of the output given to a
\* SpeedMeasurement run on its own: 1..MaxPieces
MaxPieces == 3
\* number of "}"-separated segments of the engine's output: 1..MaxSegments
MaxSegments == 2

----------------------------------------------------------------------------
(* Values *)

None   == "None"
Absent == "<absent>"

IPv4 == "IPv4"
IPv6 == "IPv6"
Protocol == {IPv4, IPv6}

Mode == {"only_4", "only_6", "prefer_4", "prefer_6", "both"}

url_dual == "control.netmetr.cz"

ControlServerError == "ControlServerError"
MeasurementError   == "MeasurementError"
NetmetrExceptions  == {"NetmetrError", ControlServerError, MeasurementError, "ConfigError"}

\* the uuid the caller passes to the constructor
CallerUuids == {None, "stored-uuid"}
\* values the server may put into settings[0].uuid
ServerUuids == {Absent, "", "abc123"}
\* values of settings[0].urls.control_ipv4_only / control_ipv6_only
Urls4 == {Absent, "v4.control"}
Urls6 == {Absent, "v6.control"}
\* test tokens the server issues
Tokens == {"tokA", "tokB"}

Min(S) == CHOOSE x \in S : \A y \in S : x <= y

\* one ping probe: the exit status of `ping -c1`, whether "time=<float> ms"
\* can be cut out of its output, and the round-trip time it prints
LatenciesMs == {3, 5}
Probes ==
    {pr \in [exit : {0, 1}, decodable : BOOLEAN, ms : LatenciesMs] :
        /\ pr.exit # 0 => ~pr.decodable
        /\ ~pr.decodable => pr.ms = Min(LatenciesMs)}

\* throughputs (kbps) the engine reports
DlKbps == {90690}
UlKbps == {58080}

\* optional values: <<>> is "not bound yet", <<x>> is x
Nothing == <<>>
Some(x) == <<x>>
The(o)  == o[1]

RECURSIVE SeqsUpTo(_, _)
SeqsUpTo(S, n) ==
    IF n = 0 THEN {<<>>}
    ELSE LET shorter == SeqsUpTo(S, n - 1)
         IN  shorter \cup {Append(q, x) : q \in {r \in shorter : Len(r) = n - 1}, x \in S}

SeqsOfLen(S, n) == {q \in SeqsUpTo(S, n) : Len(q) = n}


----------------------------------------------------------------------------
(* ControlServer.send_request and the replies of the network *)

\* what comes back for one request: an HTTP error status, a connection / URL
\* failure, a body that is not JSON, a JSON array, or a JSON object
ReplyKinds == {"HTTPError", "URLError", "invalid", "array", "object"}
ErrorFields == {Absent, "", "x"}

\* Python truthiness of rep.get("error")
Truthy(v) == v \notin {Absent, None, ""}

\* send_request: the exception raised ("none": the object is returned)
SendRequest(kind, obj) ==
    CASE kind = "HTTPError" -> ControlServerError
      [] kind = "URLError"  -> ControlServerError
      [] kind = "invalid"   -> "JSONDecodeError"
      [] kind = "array"     -> "AttributeError"
      [] OTHER              -> IF Truthy(obj.error) THEN ControlServerError ELSE "none"

\* a request to the host "None" (address is None inside create_url) reaches
\* no server: the name does not resolve
ReplyKindsAt(addr) == IF addr = None THEN {"URLError"} ELSE ReplyKinds

\* create_url with the result request addressed to the dual-stack server
CreateUrlMutDual(path) ==
    [address |-> IF path = "result" THEN url_dual ELSE address, path |-> path]

\* create_url: the host part of the request URL
CreateUrl(path) == [address |-> address, path |-> path]

----------------------------------------------------------------------------
(* ControlServer.__init__ / _load_uuid *)

\* the JSON object answering the settings request
BootObjects ==
    [error : ErrorFields, has_settings : BOOLEAN, uuid : ServerUuids,
     control_ipv4_only : Urls4, control_ipv6_only : Urls6]

\* dict.get(key): None when the key is missing
DictGet(v) == IF v = Absent THEN None ELSE v

\* _load_uuid, lines 57-63: the exception raised while the response is read
LoadUuidExc(caller_uuid, obj) ==
    IF ~obj.has_settings THEN "KeyError"
    ELSE IF ~Truthy(obj.uuid) /\ ~Truthy(caller_uuid) THEN ControlServerError
    ELSE "none"

\* _load_uuid keeping whatever the response holds under "uuid"
LoadUuidValueMutServerOnly(caller_uuid, obj) == DictGet(obj.uuid)

\* _load_uuid, lines 57-59: the uuid kept
LoadUuidValue(caller_uuid, obj) ==
    IF Truthy(obj.uuid) THEN obj.uuid ELSE caller_uuid

----------------------------------------------------------------------------
(* ControlServer.use_proto *)

\* lines 68-71: the address inside the scope
UseProtoEnter(p) == IF p = IPv4 THEN url_ipv4 ELSE url_ipv6

\* lines 73-74: the address after the scope, left with exception e ("none":
\* left by return)
UseProtoExitMutNoFinally(e) == IF e = "none" THEN url_dual ELSE address

UseProtoExit(e) == url_dual

----------------------------------------------------------------------------
(* Netmetr.measure: the protocol selection *)

\* proto_map, in the order its items() are iterated
ProtoOrder == <<IPv4, IPv6>>

proto_map(p) ==
    IF p = IPv4 THEN {"only_4", "both", "prefer_4"}
                ELSE {"only_6", "both", "prefer_6"}

\* lines 92-96 naming the family the mode prefers
ContingencyProtoMutSameFamily(m) ==
    IF m = "prefer_6" THEN IPv6
    ELSE IF m = "prefer_4" THEN IPv4
    ELSE None

\* lines 92-96: the family tried when nothing was measured (None: no one)
ContingencyProto(m) ==
    IF m = "prefer_6" THEN IPv4
    ELSE IF m = "prefer_4" THEN IPv6
    ELSE None

\* measure() with the except clause for MeasurementError missing
CaughtMutOnlyControl(e) == e = ControlServerError

\* lines 84-89 and 100-105: the exceptions an except clause of measure() takes
Caught(e) == e \in {ControlServerError, MeasurementError}

\* measure() recording a ControlServerError of the attempt as 'Failed'
ResultEntryMutControlAsFailed(e, value) ==
    CASE e = "none"             -> The(value)
      [] e = ControlServerError -> [error |-> "Failed"]
      [] e = MeasurementError   -> [error |-> "Failed"]

\* what measure() stores in result[proto] for an attempt that returned value
\* (e = "none") or raised e
ResultEntry(e, value) ==
    CASE e = "none"             -> The(value)
      [] e = ControlServerError -> [error |-> "Not available"]
      [] e = MeasurementError   -> [error |-> "Failed"]

\* line 83: measured after an attempt of the given phase returned
MeasuredAfter(ph) == IF ph = "direct" THEN TRUE ELSE measured

----------------------------------------------------------------------------
(* ControlServer.request_settings: the JSON object answering testRequest *)

\* the keys Measurement.__init__ reads
SettingsFields ==
    {"test_token", "test_numpings", "test_server_address", "test_server_port",
     "test_server_encryption", "test_numthreads", "test_duration"}

\* `missing` holds the keys the object lacks
SettingsObjects ==
    [error : ErrorFields,
     missing : {{}, {"test_token"}, {"test_duration"}},
     test_token : Tokens,
     test_numpings : 0..MaxPings,
     test_server_address : {"test.server"}]

----------------------------------------------------------------------------
(* measurement.py *)

\* Measurement.__init__, lines 23-35: settings[key] of a missing key
MeasurementInitExc(settings) ==
    IF settings.missing \cap SettingsFields # {} THEN "KeyError" ELSE "none"

\* Measurement.__init__: the fields stored (self.test_token, self.pings.count,
\* self.pings.test_server_address)
MeasurementInit(settings) ==
    [test_token |-> settings.test_token,
     count |-> settings.test_numpings,
     test_server_address |-> settings.test_server_address]

\* PingMeasurement.measure, line 138: int(ping * 1000000)
PingNs(ms) == ms * 1000000

\* lines 139-141 returning the least latency read so far when a later probe
\* cannot be parsed
RECURSIVE PingLoopMutKeepsSoFar(_, _, _)
PingLoopMutKeepsSoFar(probes, k, values) ==
    IF k > Len(probes)
    THEN IF values = {} THEN [exc |-> MeasurementError, val |-> 0]
                        ELSE [exc |-> "none", val |-> Min(values)]
    ELSE IF probes[k].exit # 0 THEN PingLoopMutKeepsSoFar(probes, k + 1, values)
    ELSE IF ~probes[k].decodable
         THEN IF values = {} THEN [exc |-> MeasurementError, val |-> 0]
                             ELSE [exc |-> "none", val |-> Min(values)]
    ELSE PingLoopMutKeepsSoFar(probes, k + 1, values \cup {PingNs(probes[k].ms)})

\* PingMeasurement.measure, lines 126-146, from probe k on, ping_values = values
RECURSIVE PingLoop(_, _, _)
PingLoop(probes, k, values) ==
    IF k > Len(probes)
    THEN IF values = {} THEN [exc |-> MeasurementError, val |-> 0]
                        ELSE [exc |-> "none", val |-> Min(values)]
    ELSE IF probes[k].exit # 0 THEN PingLoop(probes, k + 1, values)
    ELSE IF ~probes[k].decodable THEN [exc |-> MeasurementError, val |-> 0]
    ELSE PingLoop(probes, k + 1, values \cup {PingNs(probes[k].ms)})

\* PingMeasurement.measure: Popen raises OSError when there is no ping command
PingMeasure(installed, probes) ==
    IF Len(probes) > 0 /\ ~installed THEN [exc |-> "OSError", val |-> 0]
    ELSE PingLoop(probes, 1, {})

\* The engine's primary output, as the pieces split("}") cuts it into.  A
\* piece is JSON once "}" is appended iff it is one object body and nothing
\* else: no text before the "{" (pre), and a "{" (open); keys are the
\* throughput fields the object holds.
ThroughputFields == {"res_dl_throughput_kbps", "res_ul_throughput_kbps"}
SegmentsOver(Dl, Ul) ==
    {sg \in [pre : BOOLEAN, open : BOOLEAN, keys : SUBSET ThroughputFields,
             dl : Dl, ul : Ul] :
        /\ ~sg.open => (sg.keys = {} /\ ~sg.pre)
        /\ sg.keys # ThroughputFields => (sg.dl = Min(Dl) /\ sg.ul = Min(Ul))}
Segments == SegmentsOver(DlKbps, UlKbps)

\* the outputs the engine may write: split("}") yields at least one piece
EngineOutputs == SeqsUpTo(Segments, MaxSegments) \ {<<>>}

\* json.loads(piece + "}") succeeds
JsonLoads(sg) == ~sg.pre /\ sg.open

\* line 215 taking the last piece that is followed by a "}"
ResultPieceMutLast(segs) == segs[Len(segs) - 1]

\* line 215: test_result.split("}")[1]
ResultPiece(segs) == segs[2]

\* lines 223-226 with the download field checked only
MissingFieldsMutDlOnly(keys) == {"res_dl_throughput_kbps"} \ keys

\* lines 223-226: the fields of SPEED_RESULT_REQUIRED_FIELDS the object lacks
MissingFields(keys) == ThroughputFields \ keys

\* SpeedMeasurement.measure, lines 188-228: the exception raised, the value
\* returned and, for a missing field, the fields the message may name (the
\* loop runs over a set: it names the one it meets first)
SpeedMeasure(launched, decodable, segs) ==
    IF ~launched THEN [exc |-> MeasurementError, val |-> Nothing, missing |-> {}]
    ELSE IF ~decodable THEN [exc |-> MeasurementError, val |-> Nothing, missing |-> {}]
    ELSE IF Len(segs) < 2 THEN [exc |-> "IndexError", val |-> Nothing, missing |-> {}]
    ELSE IF ~JsonLoads(ResultPiece(segs))
         THEN [exc |-> MeasurementError, val |-> Nothing, missing |-> {}]
    ELSE IF MissingFields(ResultPiece(segs).keys) # {}
         THEN [exc |-> MeasurementError, val |-> Nothing,
               missing |-> MissingFields(ResultPiece(segs).keys)]
    ELSE [exc |-> "none",
          val |-> Some([res_dl_throughput_kbps |-> ResultPiece(segs).dl,
                        res_ul_throughput_kbps |-> ResultPiece(segs).ul]),
          missing |-> {}]

\* round(n / d, 2), in hundredths; ties go to the even neighbour (no input
\* drawn here is a tie)
Round2(n, d) ==
    LET q == (100 * n) \div d
        r == (100 * n) % d
    IN  IF 2 * r < d THEN q
        ELSE IF 2 * r > d THEN q + 1
        ELSE IF q % 2 = 0 THEN q ELSE q + 1

\* Measurement.measure, lines 59-63 (values in hundredths)
SimpleResult(ping, speed) ==
    [download_mbps |-> Round2(speed.res_dl_throughput_kbps, 1000),
     upload_mbps |-> Round2(speed.res_ul_throughput_kbps, 1000),
     ping_ms |-> Round2(ping, 1000000)]

\* network.py lines 4-5
NETWORK_TYPE_MOBILE == 104
NETWORK_TYPE_DEFAULT == 98

\* get_network_type, network.py lines 21-35, over what /proc/net/route holds
\* when it is called: the interface of the first default route, "none" when
\* no line is a default route, "unreadable" when open() raises OSError
RouteTables == {"wwan0", "eth2", "none", "unreadable"}
get_network_type(route) ==
    IF route = "wwan0" THEN NETWORK_TYPE_MOBILE ELSE NETWORK_TYPE_DEFAULT

\* Measurement.__init__, lines 38-53: model, os_version and hw_version are
\* read from /tmp/sysinfo/model, /etc/turris-version and
\* /tmp/sysinfo/board_name, with defaults where the file is missing
Hosts ==
    {[model |-> "default", os_version |-> "unknown", hw_version |-> "unknown"],
     [model |-> "Turris Omnia", os_version |-> "6.0", hw_version |-> "omnia"]}

\* the host measure() runs on in Spec and SpecBind: no sysinfo files, a wired
\* default route (generate_test_result over every host is SpecPayload)
HostGiven == [model |-> "default", os_version |-> "unknown", hw_version |-> "unknown"]
RouteGiven == "eth2"

\* Measurement.generate_test_result, lines 90-110; host is what __init__
\* stored in self.model, self.os_version and self.hw_version, route is what
\* /proc/net/route holds at the call of line 93
GenerateTestResult(m, host, route, ping, speed) ==
    [model |-> host.model,
     network_type |-> get_network_type(route),
     product |-> <<"os: ", host.os_version, " hw: ", host.hw_version>>,
     test_ping_shortest |-> ping,
     test_speed_download |-> speed.res_dl_throughput_kbps,
     test_speed_upload |-> speed.res_ul_throughput_kbps,
     test_token |-> m.test_token]

\* SpeedMeasurement.import_speed_flows, line 259: the thinning threshold (ns)
MinDelta == 30000000

\* lines 258-260 comparing each sample with the sample before it
RECURSIVE ThinFromMutPrevSample(_, _, _, _, _)
ThinFromMutPrevSample(series, k, last_time, d_long, thread) ==
    IF k > Len(series) THEN <<>>
    ELSE IF series[k].t - last_time > MinDelta
         THEN <<[direction |-> d_long, thread |-> thread,
                 time |-> series[k].t, bytes |-> series[k].b]>>
              \o ThinFromMutPrevSample(series, k + 1, series[k].t, d_long, thread)
         ELSE ThinFromMutPrevSample(series, k + 1, series[k].t, d_long, thread)

\* line 259 keeping a sample that is exactly MinDelta after the last one kept
RECURSIVE ThinFromMutAtLeast(_, _, _, _, _)
ThinFromMutAtLeast(series, k, last_time, d_long, thread) ==
    IF k > Len(series) THEN <<>>
    ELSE IF series[k].t - last_time >= MinDelta
         THEN <<[direction |-> d_long, thread |-> thread,
                 time |-> series[k].t, bytes |-> series[k].b]>>
              \o ThinFromMutAtLeast(series, k + 1, series[k].t, d_long, thread)
         ELSE ThinFromMutAtLeast(series, k + 1, last_time, d_long, thread)

\* lines 255-266: the samples of one thread kept, from sample k on
RECURSIVE ThinFrom(_, _, _, _, _)
ThinFrom(series, k, last_time, d_long, thread) ==
    IF k > Len(series) THEN <<>>
    ELSE IF series[k].t - last_time > MinDelta
         THEN <<[direction |-> d_long, thread |-> thread,
                 time |-> series[k].t, bytes |-> series[k].b]>>
              \o ThinFrom(series, k + 1, series[k].t, d_long, thread)
         ELSE ThinFrom(series, k + 1, last_time, d_long, thread)

\* lines 254-256 with last_time set once per direction: a thread starts from
\* the last sample kept of the thread before it
RECURSIVE ThinFlowsMutSharedLast(_, _, _)
ThinFlowsMutSharedLast(flows, n, d_long) ==
    IF n > Len(flows) THEN <<>>
    ELSE LET before == IF n = 1 THEN <<>> ELSE ThinFrom(flows[n - 1], 1, 0, d_long, n - 2)
             start  == IF before = <<>> THEN 0 ELSE before[Len(before)].time
         IN  ThinFrom(flows[n], 1, start, d_long, n - 1)
             \o ThinFlowsMutSharedLast(flows, n + 1, d_long)

\* lines 252-267: the flows of one direction, thread numbers from 0
RECURSIVE ThinFlows(_, _, _)
ThinFlows(flows, n, d_long) ==
    IF n > Len(flows) THEN <<>>
    ELSE ThinFrom(flows[n], 1, 0, d_long, n - 1) \o ThinFlows(flows, n + 1, d_long)

\* lines 247-250: a direction the artifact lacks is skipped
ThinDirection(dir, d_long) ==
    IF dir = Nothing THEN <<>> ELSE ThinFlows(The(dir), 1, d_long)

\* the flow artifact: whether the file opens, whether it holds JSON, whether
\* the JSON has res_details, and the flows of each direction (Nothing: the
\* direction is missing)
SampleSeries == <<[t |-> 20000000, b |-> 1], [t |-> 40000000, b |-> 2],
                  [t |-> 60000000, b |-> 3]>>
DirectionFlows == {Nothing, Some(<<SampleSeries>>)}
FlowArtifacts ==
    [openable : BOOLEAN, valid_json : BOOLEAN, has_res_details : BOOLEAN,
     dl : DirectionFlows, ul : DirectionFlows]

\* import_speed_flows, lines 238-278: the exception raised and the value
\* returned (Nothing is None)
ImportSpeedFlows(art) ==
    IF ~art.openable THEN [exc |-> "none", val |-> Nothing]
    ELSE IF ~art.valid_json THEN [exc |-> "JSONDecodeError", val |-> Nothing]
    ELSE IF ~art.has_res_details THEN [exc |-> "KeyError", val |-> Nothing]
    ELSE [exc |-> "none",
          val |-> Some(ThinDirection(art.dl, "download")
                       \o ThinDirection(art.ul, "upload"))]

\* lines 269-277: the os.remove calls reached; the return of line 244 and an
\* exception of lines 241-248 leave the function before them
RemovalsAttempted(art) ==
    IF art.openable /\ art.valid_json /\ art.has_res_details
    THEN {"flows_file", "config_file"}
    ELSE {}

----------------------------------------------------------------------------
(* ControlServer.upload_result *)

\* lines 97-103: req before speed_detail is set
UploadHead(params) == params @@ [client_name |-> "HW-PROBE"]

\* lines 97-109: the request given to send_request
UploadRequest(params, speed_array) ==
    UploadHead(params) @@ [speed_detail |-> speed_array]

\* upload_result calling log_request after line 108
LoggedRequestMutAfterAttach(params, speed_array) ==
    UploadRequest(params, speed_array)

\* line 106 with logging.py lines 78-88: json.dumps(req) is evaluated inside
\* log_request, so the text logged is req as it is at line 106
LoggedRequest(params, speed_array) == UploadHead(params)

----------------------------------------------------------------------------
(* _measure_protocol and Measurement.measure: the order of the statements *)

\* Measurement.measure with the speed test run before the ping probes
StepAfterMutSpeedFirst(s) ==
    CASE s = "settings"  -> "construct"
      [] s = "construct" -> "speed"
      [] s = "speed"     -> "ping"
      [] s = "ping"      -> "flows"
      [] s = "flows"     -> "upload"
      [] s = "upload"    -> "return"

\* the statement run after statement s completed
StepAfter(s) ==
    CASE s = "settings"  -> "construct"
      [] s = "construct" -> "ping"
      [] s = "ping"      -> "speed"
      [] s = "speed"     -> "flows"
      [] s = "flows"     -> "upload"
      [] s = "upload"    -> "return"

\* Measurement.measure with a failed ping measurement swallowed
RaisesMutPingSwallowed(s, e) ==
    e # "none" /\ ~(s = "ping" /\ e = MeasurementError)

\* _measure_protocol and Measurement.measure hold no try/except: a statement
\* that raised e ends the attempt
Raises(s, e) == e # "none"

\* result starting with a default outcome for every family
ResultInitMutDefaults == [p \in Protocol |-> [error |-> "Not available"]]

\* line 74: result = {}
ResultInit == <<>>

\* result[p] = v
ResultPut(res, p, v) ==
    [q \in DOMAIN res \cup {p} |-> IF q = p THEN v ELSE res[q]]

\* send_request re-sending a request that failed
SentMutRetry(lg, event) ==
    IF event.exc # "none" THEN Append(Append(lg, event), event) ELSE Append(lg, event)

\* send_request calls urlopen once (control.py line 165): one entry of log per
\* call, whatever the outcome
Sent(lg, event) == Append(lg, event)

\* the constructor swallowing the exception of _load_uuid
AfterConstructorMutSwallowed(e) == "idle"

\* ControlServer.__init__ line 36, Netmetr.__init__ lines 30-34: an exception of
\* _load_uuid leaves both constructors, so no session object exists
AfterConstructor(e) == IF e = "none" THEN "idle" ELSE "ctor_raised"

\* one entry of log: what was done (ev), by which attempt, to which address,
\* with which test token, and the exception it raised ("none": it returned)
Event(ev, addr, token, e) ==
    [ev |-> ev, att |-> natt, proto |-> proto, phase |-> phase,
     address |-> addr, token |-> token, exc |-> e]

\* what a session verb sent and received: the path of the request, the uuid
\* the request carries (req["uuid"] = self.uuid), and the reply
Exchange(path, kind, obj) ==
    [path |-> path, uuid |-> uuid, kind |-> kind, obj |-> obj]

----------------------------------------------------------------------------
(* The state after ControlServer.__init__ lines 23-34 *)

InitSession ==
    /\ pc = "new"
    /\ uuid \in CallerUuids
    /\ url_ipv4 = None
    /\ url_ipv6 = None
    /\ address = url_dual
    /\ mode = None
    /\ bind_ip = Nothing
    /\ i = 1
    /\ measured = FALSE
    /\ result = ResultInit
    /\ exc = "none"
    /\ proto = None
    /\ phase = None
    /\ step = None
    /\ natt = 0
    /\ test_settings = Nothing
    /\ measurement = Nothing
    /\ ping_shortest = Nothing
    /\ speed_results = Nothing
    /\ simple_result = Nothing
    /\ full_results = Nothing
    /\ tmp_files = {}
    /\ log = <<>>
    /\ reply = Nothing
    /\ retval = Nothing

\* the calls studied on their own are not running
NoExtras ==
    /\ ping_pair = Nothing
    /\ engine = Nothing
    /\ hist = Nothing

Init ==
    /\ InitSession
    /\ ping_frame = Nothing
    /\ speed_call = Nothing
    /\ flows_call = Nothing
    /\ payload_call = Nothing
    /\ cli = Nothing
    /\ NoExtras

\* the positions of the caller at which the session exists and no call runs:
\* the constructor returned, or the call made last returned or raised
Callable == {"idle", "returned", "raised", "verb_returned", "verb_raised",
             "bind_returned", "bind_raised"}

\* ControlServer._load_uuid, called by the constructor (line 36)
LoadUuid ==
    /\ pc = "new"
    /\ \E kind \in ReplyKindsAt(address), obj \in BootObjects :
         LET url == CreateUrl("settings")
             e1  == SendRequest(kind, obj)
             e   == IF e1 # "none" THEN e1 ELSE LoadUuidExc(uuid, obj)
         IN  /\ log' = Sent(<<>>, Event("settings", url.address, None, e))
             /\ reply' = Some(Exchange("settings", kind, obj))
             /\ IF e = "none"
                THEN /\ uuid' = LoadUuidValue(uuid, obj)
                     /\ url_ipv4' = DictGet(obj.control_ipv4_only)
                     /\ url_ipv6' = DictGet(obj.control_ipv6_only)
                     /\ pc' = AfterConstructor(e)
                     /\ exc' = exc
                ELSE /\ UNCHANGED session
                     /\ pc' = AfterConstructor(e)
                     /\ exc' = e
    /\ UNCHANGED <<address, call, proto, phase, step, locals, retval, units>>

\* Netmetr.measure is called: lines 73-78
Measure(m) ==
    /\ pc \in Callable
    /\ pc' = "loop"
    /\ mode' = m
    /\ bind_ip' = Nothing
    /\ i' = 1
    /\ measured' = FALSE
    /\ result' = ResultInit
    /\ natt' = 0
    /\ exc' = "none"
    /\ proto' = None
    /\ phase' = None
    /\ step' = None
    /\ test_settings' = Nothing
    /\ measurement' = Nothing
    /\ ping_shortest' = Nothing
    /\ speed_results' = Nothing
    /\ simple_result' = Nothing
    /\ full_results' = Nothing
    /\ tmp_files' = {}
    /\ log' = <<>>
    /\ reply' = Nothing
    /\ retval' = Nothing
    /\ UNCHANGED <<session, address, units>>

\* _measure_protocol(p) is entered, lines 168-169: use_proto rebinds address
EnterAttempt(p, ph) ==
    /\ pc' = "attempt"
    /\ proto' = p
    /\ phase' = ph
    /\ step' = "settings"
    /\ natt' = natt + 1
    /\ address' = UseProtoEnter(p)
    /\ test_settings' = Nothing
    /\ measurement' = Nothing
    /\ ping_shortest' = Nothing
    /\ speed_results' = Nothing
    /\ simple_result' = Nothing
    /\ full_results' = Nothing
    /\ tmp_files' = {}
    /\ log' = Append(log, [ev |-> "enter", att |-> natt + 1, proto |-> p,
                           phase |-> ph, address |-> UseProtoEnter(p),
                           token |-> None, exc |-> "none"])
    /\ UNCHANGED <<session, aside, mode, bind_ip, i, measured, result, exc>>

\* lines 79-80: the family of this iteration is not asked for by the mode
LoopSkip ==
    /\ pc = "loop"
    /\ i <= Len(ProtoOrder)
    /\ mode \notin proto_map(ProtoOrder[i])
    /\ i' = i + 1
    /\ UNCHANGED <<pc, session, aside, address, mode, bind_ip, measured, result, natt, exc,
                   proto, phase, step, locals, log>>

\* lines 79-82: the direct attempt of this iteration starts
LoopAttempt ==
    /\ pc = "loop"
    /\ i <= Len(ProtoOrder)
    /\ mode \in proto_map(ProtoOrder[i])
    /\ EnterAttempt(ProtoOrder[i], "direct")

\* lines 91-99: nothing was measured and the mode names a contingency
Contingency ==
    /\ pc = "loop"
    /\ i > Len(ProtoOrder)
    /\ ~measured
    /\ ContingencyProto(mode) # None
    /\ EnterAttempt(ContingencyProto(mode), "contingency")

\* lines 91-107: no contingency attempt; measure() returns result
Return ==
    /\ pc = "loop"
    /\ i > Len(ProtoOrder)
    /\ measured \/ ContingencyProto(mode) = None
    /\ pc' = "returned"
    /\ UNCHANGED <<session, aside, address, call, exc, proto, phase, step, locals, log>>

\* The attempt ends with exception e ("none": it returned value): use_proto
\* restores address, then the try statement of measure() (lines 81-89,
\* 98-105) stores the outcome or lets e pass; measure_bind (line 152) has no
\* try statement and hands on what _measure_protocol returned or raised
AttemptExit(e, value, lg) ==
    /\ address' = UseProtoExit(e)
    /\ log' = Append(lg, Event("exit", address, None, e))
    /\ step' = None
    /\ IF phase = "bind"
       THEN /\ pc' = IF e = "none" THEN "bind_returned" ELSE "bind_raised"
            /\ exc' = e
            /\ UNCHANGED <<result, measured, i>>
       ELSE IF e = "none" \/ Caught(e)
       THEN /\ result' = ResultPut(result, proto, ResultEntry(e, value))
            /\ measured' = IF e = "none" THEN MeasuredAfter(phase) ELSE measured
            /\ exc' = exc
            /\ IF phase = "direct"
               THEN pc' = "loop" /\ i' = i + 1
               ELSE pc' = "returned" /\ i' = i
       ELSE /\ pc' = "raised"
            /\ exc' = e
            /\ UNCHANGED <<result, measured, i>>
    /\ UNCHANGED <<session, aside, mode, bind_ip, natt, proto, phase>>

\* The running statement raised e or completed: the attempt ends, or goes on
\* with the next statement
Proceed(e, value, lg) ==
    IF Raises(step, e) \/ StepAfter(step) = "return"
    THEN AttemptExit(e, value, lg)
    ELSE /\ step' = StepAfter(step)
         /\ log' = lg
         /\ UNCHANGED <<pc, session, aside, address, call, exc, proto, phase>>

\* line 170: control_server.request_settings()
RequestSettings ==
    /\ pc = "attempt" /\ step = "settings"
    /\ \E kind \in ReplyKindsAt(address), obj \in SettingsObjects :
         LET url == CreateUrl("testRequest")
             e   == SendRequest(kind, obj)
             tok == IF e # "none" THEN None
                    ELSE IF "test_token" \in obj.missing THEN Absent
                    ELSE obj.test_token
             lg  == Sent(log, Event("testRequest", url.address, tok, e))
         IN  /\ test_settings' = IF e = "none" THEN Some(obj) ELSE test_settings
             /\ Proceed(e, Nothing, lg)
    /\ UNCHANGED <<measurement, ping_shortest, speed_results, simple_result,
                   full_results, tmp_files>>

\* SpeedMeasurement.__init__, lines 159-160: the two files made by mkstemp
TempFiles == {"config_file", "flows_file"}

\* line 172: Measurement(...); SpeedMeasurement.__init__ makes the two
\* temporary files (lines 159-160) once the settings keys were read, and
\* writes the config file of the engine (lines 161-169)
Construct ==
    /\ pc = "attempt" /\ step = "construct"
    /\ \E cfg_written \in BOOLEAN :
         LET e1 == MeasurementInitExc(The(test_settings))
             e  == IF e1 # "none" THEN e1
                   ELSE IF ~cfg_written THEN MeasurementError
                   ELSE "none"
         IN  /\ measurement' = IF e = "none"
                               THEN Some(MeasurementInit(The(test_settings)))
                               ELSE measurement
             /\ tmp_files' = IF e1 = "none" THEN TempFiles ELSE tmp_files
             /\ Proceed(e, Nothing, log)
    /\ UNCHANGED <<test_settings, ping_shortest, speed_results, simple_result,
                   full_results>>

\* measurement.py line 56: self.pings.measure()
Ping ==
    /\ pc = "attempt" /\ step = "ping"
    /\ \E installed \in BOOLEAN,
          probes \in SeqsOfLen(Probes, The(measurement).count) :
         LET r  == PingMeasure(installed, probes)
             lg == Append(log, Event("ping", The(measurement).test_server_address,
                                     None, r.exc))
         IN  /\ ping_shortest' = IF Raises(step, r.exc) THEN ping_shortest
                                  ELSE Some(r.val)
             /\ Proceed(r.exc, Nothing, lg)
    /\ UNCHANGED <<test_settings, measurement, speed_results, simple_result,
                   full_results, tmp_files>>

\* measurement.py line 57: self.speed.measure()
Speed ==
    /\ pc = "attempt" /\ step = "speed"
    /\ \E launched \in BOOLEAN, decodable \in BOOLEAN, segs \in EngineOutputs :
         LET r  == SpeedMeasure(launched, decodable, segs)
             lg == Append(log, Event("rmbt", The(measurement).test_server_address,
                                     The(measurement).test_token, r.exc))
         IN  /\ speed_results' = r.val
             /\ Proceed(r.exc, Nothing, lg)
    /\ UNCHANGED <<test_settings, measurement, ping_shortest, simple_result,
                   full_results, tmp_files>>

\* measurement.py lines 59-78: the simple result, the payload and the flows
Flows ==
    /\ pc = "attempt" /\ step = "flows"
    /\ \E art \in FlowArtifacts :
         LET r  == ImportSpeedFlows(art)
             lg == Append(log, Event("flows", None, None, r.exc))
         IN  /\ simple_result' =
                    Some(SimpleResult(The(ping_shortest), The(speed_results)))
             /\ full_results' =
                    IF r.exc = "none"
                    THEN Some([params |-> GenerateTestResult(The(measurement),
                                   HostGiven, RouteGiven,
                                   The(ping_shortest), The(speed_results)),
                               speed_array |-> r.val])
                    ELSE full_results
             /\ tmp_files' = tmp_files \ RemovalsAttempted(art)
             /\ Proceed(r.exc, Nothing, lg)
    /\ UNCHANGED <<test_settings, measurement, ping_shortest, speed_results>>

\* lines 174-175: control_server.upload_result(*full_results), then
\* return simple_result
Upload ==
    /\ pc = "attempt" /\ step = "upload"
    /\ \E kind \in ReplyKindsAt(address), err \in ErrorFields :
         LET url == CreateUrl("result")
             req == UploadRequest(The(full_results).params,
                                  The(full_results).speed_array)
             e   == SendRequest(kind, [error |-> err])
             lg  == Sent(log, Event("result", url.address, req.test_token, e))
         IN  Proceed(e, simple_result, lg)
    /\ UNCHANGED locals

----------------------------------------------------------------------------
(* The session verbs outside measure(): download_sync_code, download_history *)

\* the JSON object answering the sync request: "sync" is missing, an empty
\* list, or a list whose first entry may hold "sync_code"; the objects the
\* server marks with an error are represented by {error: 'x', sync: []}
SyncCodes == {Absent, "", "code1"}
SyncObjects ==
    {o \in [error : ErrorFields, sync : {Absent, "empty", "entry"},
            sync_code : SyncCodes] :
        /\ o.sync # "entry" => o.sync_code = Absent
        /\ o.error = "x" => o.sync = "empty"
        /\ o.error = "" => o.sync_code = "code1"}

\* the JSON object answering the history request
HistoryObjects == [error : ErrorFields, history : {"entries"}]

\* the replies to one request of a verb: a JSON object of Objs, or one of the
\* replies that carry no JSON object
NoObject == "<no object>"
Replies(addr, Objs) ==
    {[kind |-> k, obj |-> NoObject] : k \in ReplyKindsAt(addr) \ {"object"}}
    \cup {[kind |-> k, obj |-> o] : k \in ReplyKindsAt(addr) \cap {"object"}, o \in Objs}

\* control.py lines 149-152: the exception raised while the response is read
DownloadSyncCodeExc(obj) ==
    IF obj.sync = Absent THEN "KeyError"
    ELSE IF obj.sync = "empty" THEN "IndexError"
    ELSE IF ~Truthy(DictGet(obj.sync_code)) THEN ControlServerError
    ELSE "none"

\* netmetr.py lines 41-45: the exception that leaves Netmetr.download_history
\* when control_server.download_history raised e
DownloadHistoryExc(e) == IF e = ControlServerError THEN "none" ELSE e

\* the one request a session verb sends outside measure()
VerbEvent(ev, addr, e) ==
    [ev |-> ev, att |-> 0, proto |-> None, phase |-> None,
     address |-> addr, token |-> None, exc |-> e]

\* a verb is called on the session: the frame of the previous call is gone
VerbCalled ==
    /\ pc \in Callable
    /\ mode' = None
    /\ bind_ip' = Nothing
    /\ i' = 1
    /\ measured' = FALSE
    /\ result' = ResultInit
    /\ natt' = 0
    /\ proto' = None
    /\ phase' = None
    /\ step' = None
    /\ test_settings' = Nothing
    /\ measurement' = Nothing
    /\ ping_shortest' = Nothing
    /\ speed_results' = Nothing
    /\ simple_result' = Nothing
    /\ full_results' = Nothing
    /\ tmp_files' = {}
    /\ UNCHANGED <<session, address, units>>

\* Netmetr.download_sync_code -> ControlServer.download_sync_code
DownloadSyncCode ==
    /\ VerbCalled
    /\ \E rep \in Replies(address, SyncObjects) :
         LET url == CreateUrl("sync")
             e1  == SendRequest(rep.kind, rep.obj)
             e   == IF e1 # "none" THEN e1 ELSE DownloadSyncCodeExc(rep.obj)
         IN  /\ log' = Sent(<<>>, VerbEvent("sync", url.address, e1))
             /\ reply' = Some(Exchange("sync", rep.kind, rep.obj))
             /\ retval' = IF e = "none" THEN Some(rep.obj.sync_code) ELSE Nothing
             /\ pc' = IF e = "none" THEN "verb_returned" ELSE "verb_raised"
             /\ exc' = e

\* Netmetr.download_history -> ControlServer.download_history, save_history
DownloadHistory ==
    /\ VerbCalled
    /\ \E rep \in Replies(address, HistoryObjects) :
         LET url == CreateUrl("history")
             e1  == SendRequest(rep.kind, rep.obj)
             e   == DownloadHistoryExc(e1)
         IN  /\ log' = Sent(<<>>, VerbEvent("history", url.address, e1))
             /\ reply' = Some(Exchange("history", rep.kind, rep.obj))
             /\ retval' = Some(None)
             /\ pc' = IF e = "none" THEN "verb_returned" ELSE "verb_raised"
             /\ exc' = e

Next ==
    \/ LoadUuid
    \/ DownloadSyncCode
    \/ DownloadHistory
    \/ \E m \in Mode : Measure(m)
    \/ LoopSkip
    \/ LoopAttempt
    \/ Contingency
    \/ Return
    \/ RequestSettings
    \/ Construct
    \/ Ping
    \/ Speed
    \/ Flows
    \/ Upload

Spec == Init /\ [][Next]_vars

----------------------------------------------------------------------------
(* Netmetr.measure_bind: the direct-bind path *)

\* the strings given as bind_ip: not an address, or an address of a family
\* that can or cannot be bound on this host
BindAddresses ==
    {a \in [family : {"invalid", IPv4, IPv6}, local : BOOLEAN] :
        a.family = "invalid" => ~a.local}

\* get_proto_from_ip answering IPv4 for every address
GetProtoFromIpMutAlways4(ip) == IF ip.family = "invalid" THEN None ELSE IPv4

\* get_proto_from_ip, lines 178-191: the family whose constructor takes the
\* string, None when neither does
GetProtoFromIp(ip) == IF ip.family = "invalid" THEN None ELSE ip.family

\* check_addr_is_local, lines 194-203: the handler of line 202 formats a
\* message with the name `port`, which netmetr.py defines nowhere, so the
\* raise statement itself raises NameError
CheckAddrIsLocal(ip) == IF ip.local THEN "none" ELSE "NameError"

\* _measure_protocol, lines 155-166, called with bind_ip and proto = None
BindCheckExc(ip) ==
    IF GetProtoFromIp(ip) = None THEN "ConfigError" ELSE CheckAddrIsLocal(ip)

\* measure_bind(ip) is called: lines 152, 155-169
MeasureBind(ip) ==
    /\ pc \in Callable
    /\ mode' = None
    /\ bind_ip' = Some(ip)
    /\ i' = 1
    /\ measured' = FALSE
    /\ result' = ResultInit
    /\ test_settings' = Nothing
    /\ measurement' = Nothing
    /\ ping_shortest' = Nothing
    /\ speed_results' = Nothing
    /\ simple_result' = Nothing
    /\ full_results' = Nothing
    /\ tmp_files' = {}
    /\ reply' = Nothing
    /\ retval' = Nothing
    /\ IF BindCheckExc(ip) # "none"
       THEN /\ pc' = "bind_raised"
            /\ exc' = BindCheckExc(ip)
            /\ natt' = 0
            /\ proto' = None
            /\ phase' = None
            /\ step' = None
            /\ log' = <<>>
            /\ UNCHANGED address
       ELSE /\ pc' = "attempt"
            /\ exc' = "none"
            /\ natt' = 1
            /\ proto' = GetProtoFromIp(ip)
            /\ phase' = "bind"
            /\ step' = "settings"
            /\ address' = UseProtoEnter(GetProtoFromIp(ip))
            /\ log' = <<[ev |-> "enter", att |-> 1, proto |-> GetProtoFromIp(ip),
                         phase |-> "bind",
                         address |-> UseProtoEnter(GetProtoFromIp(ip)),
                         token |-> None, exc |-> "none"]>>
    /\ UNCHANGED <<session, units>>

NextBind ==
    \/ LoadUuid
    \/ \E ip \in BindAddresses : MeasureBind(ip)
    \/ RequestSettings
    \/ Construct
    \/ Ping
    \/ Speed
    \/ Flows
    \/ Upload

SpecBind == Init /\ [][NextBind]_vars

----------------------------------------------------------------------------
(* PingMeasurement.measure, one probe per step *)

\* lines 131-141 with a probe whose output cannot be parsed skipped
ProbeOutcomeMutDropped(pr) ==
    IF pr.exit # 0 \/ ~pr.decodable THEN "dropped" ELSE "kept"

\* lines 131-141: a probe that exits non-zero is passed over; one that exits 0
\* is parsed, and a parse that fails raises MeasurementError
ProbeOutcome(pr) ==
    IF pr.exit # 0 THEN "dropped"
    ELSE IF ~pr.decodable THEN "fatal"
    ELSE "kept"

\* the frame when measure() is entered: self.count, whether a ping command
\* exists, the loop index, ping_values, the probes launched, the sleeps done,
\* and the Popen ... wait() and time.sleep(0.5) statements in the order run
PingFrames ==
    {[installed |-> inst, count |-> c, k |-> 1, values |-> {}, issued |-> <<>>,
      slept |-> 0, steps |-> <<>>, at |-> "loop", exc |-> "none", val |-> 0] :
        inst \in BOOLEAN, c \in 0..MaxProbes}

InitPing ==
    /\ InitSession
    /\ ping_frame \in PingFrames
    /\ speed_call = Nothing
    /\ flows_call = Nothing
    /\ payload_call = Nothing
    /\ cli = Nothing
    /\ NoExtras

PingRest ==
    <<pc, session, address, call, exc, proto, phase, step, locals, log, verb,
      speed_call, flows_call, payload_call, cli, extra>>

\* lines 126-142: one iteration of the for loop
PingProbe ==
    /\ ping_frame # Nothing
    /\ ping_frame.at = "loop"
    /\ ping_frame.k <= ping_frame.count
    /\ \E pr \in Probes :
         ping_frame' =
            IF ~ping_frame.installed
            THEN [ping_frame EXCEPT !.at = "done", !.exc = "OSError"]
            ELSE LET launched == [ping_frame EXCEPT !.issued = Append(@, pr),
                                                    !.steps = Append(@, "probe")]
                 IN  CASE ProbeOutcome(pr) = "dropped" ->
                            [launched EXCEPT !.k = @ + 1]
                       [] ProbeOutcome(pr) = "fatal" ->
                            [launched EXCEPT !.at = "done", !.exc = MeasurementError]
                       [] ProbeOutcome(pr) = "kept" ->
                            [launched EXCEPT !.values = @ \cup {PingNs(pr.ms)},
                                             !.slept = @ + 1,
                                             !.steps = Append(@, "sleep"),
                                             !.k = @ + 1]
    /\ UNCHANGED PingRest

\* lines 143-146: min(ping_values), MeasurementError when there is none
PingMin ==
    /\ ping_frame # Nothing
    /\ ping_frame.at = "loop"
    /\ ping_frame.k > ping_frame.count
    /\ ping_frame' =
          IF ping_frame.values = {}
          THEN [ping_frame EXCEPT !.at = "done", !.exc = MeasurementError]
          ELSE [ping_frame EXCEPT !.at = "done", !.val = Min(ping_frame.values)]
    /\ UNCHANGED PingRest

NextPing ==
    \/ PingProbe
    \/ PingMin

SpecPing == InitPing /\ [][NextPing]_vars

----------------------------------------------------------------------------
(* PingMeasurement.measure over a series of probe outcomes and over the   *)
(* same outcomes in another order                                          *)

\* the orders of n probes
Orders(n) == {f \in [1..n -> 1..n] : \A a, b \in 1..n : f[a] = f[b] => a = b}
Reordered(probes, f) == [j \in 1..Len(probes) |-> probes[f[j]]]

PingPairs ==
    {pp \in [installed : BOOLEAN, probes : SeqsUpTo(Probes, MaxProbes),
             order : UNION {Orders(n) : n \in 0..MaxProbes},
             ran : {FALSE}, first : {[exc |-> "none", val |-> 0]},
             second : {[exc |-> "none", val |-> 0]}] :
        pp.order \in Orders(Len(pp.probes))}

InitPingPair ==
    /\ InitSession
    /\ ping_frame = Nothing
    /\ speed_call = Nothing
    /\ flows_call = Nothing
    /\ payload_call = Nothing
    /\ cli = Nothing
    /\ ping_pair \in PingPairs
    /\ engine = Nothing
    /\ hist = Nothing

\* measurement.py lines 118-146, once for each order
PingPairRun ==
    /\ ping_pair # Nothing
    /\ ~ping_pair.ran
    /\ ping_pair' =
          [ping_pair EXCEPT
              !.ran = TRUE,
              !.first = PingMeasure(ping_pair.installed, ping_pair.probes),
              !.second = PingMeasure(ping_pair.installed,
                                     Reordered(ping_pair.probes, ping_pair.order))]
    /\ UNCHANGED <<pc, session, address, call, exc, proto, phase, step, locals,
                   log, verb, ping_frame, speed_call, flows_call, payload_call, cli,
                   engine, hist>>

NextPingPair == PingPairRun

SpecPingPair == InitPingPair /\ [][NextPingPair]_vars

----------------------------------------------------------------------------
(* SpeedMeasurement.measure, lines 188-204: the engine process, its two    *)
(* pipes and the poll / readline loop of the runner, step by step          *)

\* writes the engine makes before it exits
MaxWrites == 4
\* writes a pipe holds before the writer blocks
PipeCapacity == 2

\* what the engine does: in order, lines written to stderr ("err") and
\* pieces written to stdout ("out"), then exit
Scripts == SeqsUpTo({"err", "out"}, MaxWrites)

\* after Popen returned (line 189): nothing written, the runner about to
\* evaluate process.poll()
Engines ==
    [script : Scripts, j : {1}, err_pipe : {0}, out_pipe : {0}, exited : {FALSE},
     at : {"poll"}, logged : {0}, got : {0}]

InitEngine ==
    /\ InitSession
    /\ ping_frame = Nothing
    /\ speed_call = Nothing
    /\ flows_call = Nothing
    /\ payload_call = Nothing
    /\ cli = Nothing
    /\ ping_pair = Nothing
    /\ hist = Nothing
    /\ engine \in Engines

EngineRest ==
    <<pc, session, address, call, exc, proto, phase, step, locals, log, verb,
      ping_frame, speed_call, flows_call, payload_call, cli, ping_pair, hist>>

\* the engine writes the next piece of its script; write() blocks while the
\* pipe is full
EngineWrite ==
    /\ engine # Nothing
    /\ ~engine.exited
    /\ engine.j <= Len(engine.script)
    /\ IF engine.script[engine.j] = "err"
       THEN /\ engine.err_pipe < PipeCapacity
            /\ engine' = [engine EXCEPT !.err_pipe = @ + 1, !.j = @ + 1]
       ELSE /\ engine.out_pipe < PipeCapacity
            /\ engine' = [engine EXCEPT !.out_pipe = @ + 1, !.j = @ + 1]
    /\ UNCHANGED EngineRest

\* the engine has written everything and exits: its ends of the pipes close
EngineExit ==
    /\ engine # Nothing
    /\ ~engine.exited
    /\ engine.j > Len(engine.script)
    /\ engine' = [engine EXCEPT !.exited = TRUE]
    /\ UNCHANGED EngineRest

\* line 198: while process.poll() is None
RunnerPoll ==
    /\ engine # Nothing
    /\ engine.at = "poll"
    /\ engine' = [engine EXCEPT !.at = IF engine.exited THEN "read" ELSE "readline"]
    /\ UNCHANGED EngineRest

\* lines 199-201: process.stderr.readline() returns a line, which is logged,
\* or b"" at end of file; it blocks while the pipe is empty and open
RunnerReadline ==
    /\ engine # Nothing
    /\ engine.at = "readline"
    /\ IF engine.err_pipe > 0
       THEN engine' = [engine EXCEPT !.err_pipe = @ - 1, !.logged = @ + 1,
                                     !.at = "poll"]
       ELSE /\ engine.exited
            /\ engine' = [engine EXCEPT !.at = "poll"]
    /\ UNCHANGED EngineRest

\* line 204: process.stdout.read() after the loop: the process has exited,
\* so everything left in the pipe is read up to end of file
RunnerRead ==
    /\ engine # Nothing
    /\ engine.at = "read"
    /\ engine' = [engine EXCEPT !.got = engine.out_pipe, !.out_pipe = 0,
                                 !.at = "done"]
    /\ UNCHANGED EngineRest

EngineSteps == EngineWrite \/ EngineExit
RunnerSteps == RunnerPoll \/ RunnerReadline \/ RunnerRead

NextEngine ==
    \/ EngineWrite
    \/ EngineExit
    \/ RunnerPoll
    \/ RunnerReadline
    \/ RunnerRead

SpecEngine == InitEngine /\ [][NextEngine]_vars

\* both processes are scheduled: a step that stays possible is taken
SpecEngineLive ==
    InitEngine /\ [][NextEngine]_vars /\ WF_vars(EngineSteps) /\ WF_vars(RunnerSteps)

----------------------------------------------------------------------------
(* Netmetr.download_history and save_history, statement by statement, over *)
(* the history file (HIST_FILE) and the file mkstemp makes                 *)

\* calls of download_history modelled
MaxDownloads == 3

\* the documents the server returns; the content of a file is one of them,
\* Absent (no such file), "" (just created) or "partial" (half written)
HistoryDocs == {"doc A", "doc B"}

\* save_history writing into HIST_FILE itself
OpenTargetMutInPlace == "hist"

\* netmetr.py line 20: the file opened for writing is the one mkstemp made
OpenTarget == "tmp"

\* what the history request gives: a document, ControlServerError, or an
\* exception of another class (send_request reading a reply that is not JSON)
HistoryReplies == HistoryDocs \cup {ControlServerError, "JSONDecodeError"}

InitHistory ==
    /\ InitSession
    /\ ping_frame = Nothing
    /\ speed_call = Nothing
    /\ flows_call = Nothing
    /\ payload_call = Nothing
    /\ cli = Nothing
    /\ ping_pair = Nothing
    /\ engine = Nothing
    /\ hist \in [fs : [{"hist", "tmp"} -> {Absent}], before : {Absent},
                 received : {None}, at : {"idle"}, exc : {"none"},
                 renamed : {FALSE}, calls : {0}]

HistoryRest ==
    <<pc, session, address, call, exc, proto, phase, step, locals, log, verb,
      ping_frame, speed_call, flows_call, payload_call, cli, ping_pair, engine>>

\* download_history is left: by return (e = "none") or with exception e
HistoryEnded(h, e) == [h EXCEPT !.at = "ended", !.exc = e]

\* lines 41-45: the request; ControlServerError is logged and the call
\* returns, another exception leaves the call, a document goes to save_history
HistoryRequest ==
    /\ hist # Nothing
    /\ hist.at \in {"idle", "ended"}
    /\ hist.calls < MaxDownloads
    /\ \E rep \in HistoryReplies :
         LET h == [hist EXCEPT !.before = hist.fs["hist"], !.received = rep,
                               !.renamed = FALSE, !.calls = @ + 1,
                               !.fs = [@ EXCEPT !["tmp"] = Absent]]
         IN  hist' = IF rep = ControlServerError THEN HistoryEnded(h, "none")
                     ELSE IF rep \notin HistoryDocs THEN HistoryEnded(h, rep)
                     ELSE [h EXCEPT !.at = "mkstemp", !.exc = "none"]
    /\ UNCHANGED HistoryRest

\* line 19: tempfile.mkstemp(), outside the try statement
HistoryMkstemp ==
    /\ hist # Nothing
    /\ hist.at = "mkstemp"
    /\ \E ok \in BOOLEAN :
         hist' = IF ok THEN [hist EXCEPT !.fs = [@ EXCEPT !["tmp"] = ""],
                                         !.at = "open"]
                 ELSE HistoryEnded(hist, "OSError")
    /\ UNCHANGED HistoryRest

\* lines 21-22: open(..., "w") truncates the file and write() fills it, here
\* in two parts; an OSError is taken by line 24
HistoryWrite ==
    /\ hist # Nothing
    /\ hist.at \in {"open", "half"}
    /\ \E ok \in BOOLEAN :
         hist' = IF ~ok THEN HistoryEnded(hist, "none")
                 ELSE IF hist.at = "open"
                 THEN [hist EXCEPT !.fs = [@ EXCEPT ![OpenTarget] = "partial"],
                                   !.at = "half"]
                 ELSE [hist EXCEPT !.fs = [@ EXCEPT ![OpenTarget] = hist.received],
                                   !.at = "rename"]
    /\ UNCHANGED HistoryRest

\* line 23: os.rename(hist_file, HIST_FILE) replaces the history file in one
\* step, or raises OSError (the two names on different file systems) and
\* changes nothing
HistoryRename ==
    /\ hist # Nothing
    /\ hist.at = "rename"
    /\ \E ok \in BOOLEAN :
         hist' = IF ok
                 THEN HistoryEnded([hist EXCEPT
                         !.fs = [@ EXCEPT !["hist"] = hist.fs["tmp"],
                                          !["tmp"] = Absent],
                         !.renamed = TRUE], "none")
                 ELSE HistoryEnded(hist, "none")
    /\ UNCHANGED HistoryRest

NextHistory ==
    \/ HistoryRequest
    \/ HistoryMkstemp
    \/ HistoryWrite
    \/ HistoryRename

SpecHistory == InitHistory /\ [][NextHistory]_vars

----------------------------------------------------------------------------
(* SpeedMeasurement.measure run on its own *)

\* the throughputs written into the outputs given to it
DlKbpsGiven == {500, 90690}
UlKbpsGiven == {200}

\* the call before it runs: whether the engine can be launched, whether its
\* output is decodable text, and the pieces split("}") cuts the output into
SpeedCalls ==
    {[launched |-> l, decodable |-> d, segs |-> sq, ran |-> FALSE,
      exc |-> "none", val |-> Nothing, named |-> None] :
        l \in BOOLEAN, d \in BOOLEAN,
        sq \in SeqsUpTo(SegmentsOver(DlKbpsGiven, UlKbpsGiven), MaxPieces) \ {<<>>}}

InitSpeed ==
    /\ InitSession
    /\ ping_frame = Nothing
    /\ speed_call \in SpeedCalls
    /\ flows_call = Nothing
    /\ payload_call = Nothing
    /\ cli = Nothing
    /\ NoExtras

\* lines 184-228
SpeedRun ==
    /\ speed_call # Nothing
    /\ ~speed_call.ran
    /\ LET r == SpeedMeasure(speed_call.launched, speed_call.decodable,
                             speed_call.segs)
       IN  \E nm \in IF r.missing = {} THEN {None} ELSE r.missing :
             speed_call' = [speed_call EXCEPT !.ran = TRUE, !.exc = r.exc,
                                              !.val = r.val, !.named = nm]
    /\ UNCHANGED <<pc, session, address, call, exc, proto, phase, step, locals,
                   log, verb, ping_frame, flows_call, payload_call, cli, extra>>

NextSpeed == SpeedRun

SpecSpeed == InitSpeed /\ [][NextSpeed]_vars

----------------------------------------------------------------------------
(* SpeedMeasurement.import_speed_flows run on its own *)

\* timestamps (ns) of raw samples: one below and one at 30,000,000 ns, two of
\* them 30,000,000 ns apart, two of them 1,000,000 ns apart; a series holds
\* them in any order, also repeated
TimesNs == {10000000, 30000000, 40000000, 70000000, 71000000}
RawSamples == {[t |-> x, b |-> x \div 1000000] : x \in TimesNs}
RawSeries == SeqsUpTo(RawSamples, MaxSamples)

\* res_details.dl: missing, or the series of zero, one or two threads (the
\* second thread holds at most two samples)
DlGiven ==
    {Nothing, Some(<<>>)}
    \cup {Some(<<a>>) : a \in RawSeries}
    \cup {Some(<<a, b>>) : a \in RawSeries, b \in SeqsUpTo(RawSamples, 2)}
\* res_details.ul: missing, or one thread
UlGiven == {Nothing, Some(<<SampleSeries>>)}

\* the artifacts: readable ones, and one each of a file that does not open,
\* a file that is not JSON, a JSON object without res_details
FlowArtifactsGiven ==
    {[openable |-> TRUE, valid_json |-> TRUE, has_res_details |-> TRUE,
      dl |-> d, ul |-> u] : d \in DlGiven, u \in UlGiven}
    \cup {a \in [openable : BOOLEAN, valid_json : BOOLEAN, has_res_details : {FALSE},
                 dl : {Nothing}, ul : {Nothing}] : ~a.openable => ~a.valid_json}

FlowsCalls ==
    {[art |-> a, ran |-> FALSE, exc |-> "none", val |-> Nothing, removed |-> {}] :
        a \in FlowArtifactsGiven}

InitFlows ==
    /\ InitSession
    /\ uuid = None
    /\ ping_frame = Nothing
    /\ speed_call = Nothing
    /\ flows_call \in FlowsCalls
    /\ payload_call = Nothing
    /\ cli = Nothing
    /\ NoExtras

\* lines 230-278
FlowsRun ==
    /\ flows_call # Nothing
    /\ ~flows_call.ran
    /\ LET r == ImportSpeedFlows(flows_call.art)
       IN  flows_call' = [flows_call EXCEPT !.ran = TRUE, !.exc = r.exc,
                                            !.val = r.val,
                                            !.removed = RemovalsAttempted(flows_call.art)]
    /\ UNCHANGED <<pc, session, address, call, exc, proto, phase, step, locals,
                   log, verb, ping_frame, speed_call, payload_call, cli, extra>>

NextFlows == FlowsRun

SpecFlows == InitFlows /\ [][NextFlows]_vars

----------------------------------------------------------------------------
(* generate_test_result and upload_result on their own *)

\* the arguments: ping_shortest (ns), test_res, the token of the settings,
\* and the speed_array import_speed_flows returned (Nothing is None)
PayloadPings == {4200000, 13000000}
PayloadSpeeds ==
    [res_dl_throughput_kbps : DlKbpsGiven, res_ul_throughput_kbps : UlKbpsGiven]
SpeedArrays ==
    {Nothing, Some(<<>>),
     Some(<<[direction |-> "download", thread |-> 0, time |-> 40000000, bytes |-> 2]>>)}

PayloadCalls ==
    {[ping |-> p, speed |-> sp, test_token |-> t, speed_array |-> a,
      payloads |-> <<>>, uploaded |-> FALSE, logged |-> Nothing, sent |-> Nothing] :
        p \in PayloadPings, sp \in PayloadSpeeds, t \in Tokens, a \in SpeedArrays}

InitPayload ==
    /\ InitSession
    /\ uuid = None
    /\ ping_frame = Nothing
    /\ speed_call = Nothing
    /\ flows_call = Nothing
    /\ payload_call \in PayloadCalls
    /\ cli = Nothing
    /\ NoExtras

\* measurement.py lines 80-110, called with the arguments of payload_call on
\* some host with some routing table
PayloadGenerate ==
    /\ payload_call # Nothing
    /\ Len(payload_call.payloads) < 2
    /\ ~payload_call.uploaded
    /\ \E host \in Hosts, route \in RouteTables :
         payload_call' =
             [payload_call EXCEPT !.payloads =
                 Append(@, GenerateTestResult(
                               [test_token |-> payload_call.test_token],
                               host, route, payload_call.ping, payload_call.speed))]
    /\ UNCHANGED <<pc, session, address, call, exc, proto, phase, step, locals,
                   log, verb, ping_frame, speed_call, flows_call, cli, extra>>

\* control.py lines 94-110 with the first payload; logging says whether the
\* logger writes debug records (logging.py lines 79 and 84)
PayloadUpload ==
    /\ payload_call # Nothing
    /\ Len(payload_call.payloads) > 0
    /\ ~payload_call.uploaded
    /\ \E logging \in BOOLEAN :
         payload_call' =
             [payload_call EXCEPT
                 !.uploaded = TRUE,
                 !.logged = IF logging
                            THEN Some(LoggedRequest(payload_call.payloads[1],
                                                    payload_call.speed_array))
                            ELSE Nothing,
                 !.sent = Some(UploadRequest(payload_call.payloads[1],
                                             payload_call.speed_array))]
    /\ UNCHANGED <<pc, session, address, call, exc, proto, phase, step, locals,
                   log, verb, ping_frame, speed_call, flows_call, cli, extra>>

NextPayload == PayloadGenerate \/ PayloadUpload

SpecPayload == InitPayload /\ [][NextPayload]_vars

----------------------------------------------------------------------------
(* __main__.py: load_uuid, download_uuid and download_sync_code over the   *)
(* uci store, run after run                                                *)

\* the runs of the program modelled
MaxRuns == 3

\* identities the server assigns, and the sync code it issues for identity u
CliUuids == {"u1", "u2"}
SyncCodeFor(u) ==
    CASE u = "u1" -> "code of u1"
      [] u = "u2" -> "code of u2"
      [] OTHER    -> "code of no uuid"

\* uci_get, lines 435-444: None without /sbin/uci or without the option
UciGet(has_uci, stored) == IF has_uci /\ stored # Absent THEN stored ELSE None

\* uci_set, lines 447-457: nothing is stored without /sbin/uci
UciSet(has_uci, stored, value) == IF has_uci THEN value ELSE stored

\* download_uuid without line 145
UciDelMutKept(has_uci, stored) == stored

\* uci_del, lines 460-470
UciDel(has_uci, stored) == IF has_uci THEN Absent ELSE stored

\* the answers to the settings request and to the sync request: "fail" is any
\* exception of send_request or of reading the answer
UuidReplies ==
    {[kind |-> "fail", uuid |-> ""]}
    \cup {[kind |-> "object", uuid |-> u] : u \in CliUuids \cup {""}}
SyncReplies == {"fail", "error", "no code", "code"}

InitCli ==
    /\ InitSession
    /\ uuid = None
    /\ ping_frame = Nothing
    /\ speed_call = Nothing
    /\ flows_call = Nothing
    /\ payload_call = Nothing
    /\ NoExtras
    /\ cli \in [has_uci : BOOLEAN, uuid : {None}, sync_code : {None},
                uci_uuid : {Absent}, uci_sync_code : {Absent},
                dropped : {Absent}, at : {"start"}, runs : {1}]

CliUnchanged ==
    UNCHANGED <<pc, session, address, call, exc, proto, phase, step, locals,
                log, verb, ping_frame, speed_call, flows_call, payload_call, extra>>

\* load_uuid and download_uuid, lines 110-147
CliLoadUuid ==
    /\ cli # Nothing
    /\ cli.at = "start"
    /\ \E rep \in UuidReplies :
         LET read == UciGet(cli.has_uci, cli.uci_uuid)
             sent == IF Truthy(read) THEN read ELSE None
         IN  IF rep.kind = "fail"
             THEN cli' = [cli EXCEPT !.uuid = sent, !.at = "done",
                                     !.dropped = Absent]
             ELSE IF Truthy(rep.uuid)
             THEN cli' = [cli EXCEPT
                            !.uuid = rep.uuid,
                            !.uci_uuid = UciSet(cli.has_uci, @, rep.uuid),
                            !.uci_sync_code = UciDel(cli.has_uci, @),
                            !.dropped = cli.uci_sync_code,
                            !.at = "loaded"]
             ELSE cli' = [cli EXCEPT !.uuid = sent, !.at = "loaded",
                                     !.dropped = Absent]
    /\ CliUnchanged

\* load_sync_code and download_sync_code, lines 390-418; the server issues
\* the code of the uuid of the request
CliDownloadSyncCode ==
    /\ cli # Nothing
    /\ cli.at = "loaded"
    /\ \E rep \in SyncReplies :
         IF rep = "fail"
         THEN cli' = [cli EXCEPT !.at = "done"]
         ELSE IF rep = "error"
         THEN cli' = [cli EXCEPT !.sync_code = "", !.at = "done"]
         ELSE LET code == IF rep = "no code" THEN "" ELSE SyncCodeFor(cli.uuid)
              IN  cli' = [cli EXCEPT
                            !.sync_code = code,
                            !.uci_sync_code = UciSet(cli.has_uci, @, code),
                            !.at = "done"]
    /\ CliUnchanged

\* the program is started again: Netmetr.__init__ and main, lines 615-618
CliRun ==
    /\ cli # Nothing
    /\ cli.at = "done"
    /\ cli.runs < MaxRuns
    /\ cli' = [cli EXCEPT !.uuid = None, !.sync_code = None, !.at = "start",
                          !.dropped = Absent, !.runs = @ + 1]
    /\ CliUnchanged

NextCli == CliLoadUuid \/ CliDownloadSyncCode \/ CliRun

SpecCli == InitCli /\ [][NextCli]_vars

----------------------------------------------------------------------------
(* Reading the log of one measure() call *)

\* the positions of log holding an event of kind ev
At(ev) == {k \in 1..Len(log) : log[k].ev = ev}

\* measure() has ended: it returned result or an exception left it
CallEnded == pc \in {"returned", "raised"}

\* the families for which _measure_protocol was called, in call order
IsDirectEnter(e) == e.ev = "enter" /\ e.phase = "direct"
Attempted == {log[k].proto : k \in At("enter")}
ContingencyAttempted == \E k \in At("enter") : log[k].phase = "contingency"

\* a direct attempt returned its simple result
DirectSucceeded ==
    \E k \in At("exit") : log[k].phase = "direct" /\ log[k].exc = "none"

\* the exception attempt number n ended with
ExitOf(n) == {log[k].exc : k \in {j \in At("exit") : log[j].att = n}}

NotAvailable == [error |-> "Not available"]
Failed == [error |-> "Failed"]
IsSimpleReport(r) == DOMAIN r = {"download_mbps", "upload_mbps", "ping_ms"}

----------------------------------------------------------------------------
(* C1 *)

\* C1: when measure() has ended, the contingency family was attempted if and
\* only if the mode is prefer_4 or prefer_6 and no direct attempt returned
\* successfully; under only_4, only_6 and both it is never attempted.
C1_ContingencyIffNothingMeasured ==
    /\ mode \in {"only_4", "only_6", "both"} => ~ContingencyAttempted
    /\ CallEnded =>
         (ContingencyAttempted <=>
            (mode \in {"prefer_4", "prefer_6"} /\ ~DirectSucceeded))

----------------------------------------------------------------------------
(* C2 *)

\* C2: whenever no use_proto scope is open - after a normal return of the
\* attempt as well as after any exception raised inside it - the active
\* address of the session is the dual-stack address url_dual.
C2_AddressRestored == pc # "attempt" => address = url_dual

\* an attempt whose scope had rebound the address to the IPv4 override was
\* left by an exception raised in the flow import, which measure() does not
\* catch
C2_Witness ==
    /\ pc = "raised"
    /\ exc = "JSONDecodeError"
    /\ \E k \in At("enter") : log[k].address = "v4.control"
    /\ \E k \in At("flows") : log[k].exc = "JSONDecodeError"
    /\ address = url_dual

----------------------------------------------------------------------------
(* C3 *)

\* the families a mode asks for directly, in the order of proto_map
DirectFamilies(m) ==
    CASE m \in {"only_4", "prefer_4"} -> <<IPv4>>
      [] m \in {"only_6", "prefer_6"} -> <<IPv6>>
      [] m = "both"                   -> <<IPv4, IPv6>>

\* the families attempted by the for loop of measure(), in order
DirectlyAttempted ==
    LET enters == SelectSeq(log, IsDirectEnter)
    IN  [k \in 1..Len(enters) |-> enters[k].proto]

\* C3: when measure(mode) has ended, its direct phase has attempted IPv4
\* exactly when mode is only_4, prefer_4 or both and IPv6 exactly when mode
\* is only_6, prefer_6 or both: one family for every mode but both, and for
\* both the two families, IPv4 first.
C3_DirectFamiliesOfMode ==
    CallEnded => DirectlyAttempted = DirectFamilies(mode)

----------------------------------------------------------------------------
(* C4 *)

\* C4: in mode both, when measure() has ended the IPv6 attempt has been made
\* whatever the IPv4 attempt did, and a failure of the IPv4 attempt is
\* recorded as the IPv4 outcome.
C4_BothAlwaysTriesIPv6 ==
    (CallEnded /\ mode = "both") =>
        /\ IPv6 \in Attempted
        /\ (ExitOf(1) # {"none"}) =>
              (IPv4 \in DOMAIN result /\ result[IPv4] \in {NotAvailable, Failed})

----------------------------------------------------------------------------
(* C5 *)

----------------------------------------------------------------------------
(* C6 *)

\* C6: the map measure() returns has a key for exactly the families
\* attempted in the call, and no key ever exists for a family that was not
\* attempted; under prefer_6 with the IPv6 attempt raising
\* ControlServerError and the IPv4 contingency returning, the map is exactly
\* {IPv6: not available, IPv4: the simple report}.
C6_Scenario ==
    /\ pc = "returned"
    /\ mode = "prefer_6"
    /\ \E k \in At("enter") : log[k].att = 1 /\ log[k].proto = IPv6
    /\ ExitOf(1) = {ControlServerError}
    /\ \E k \in At("enter") : log[k].att = 2 /\ log[k].proto = IPv4
                              /\ log[k].phase = "contingency"
    /\ ExitOf(2) = {"none"}

----------------------------------------------------------------------------
(* C7 *)

\* C7: an exception that leaves measure() is one of those defined in
\* netmetr.exceptions.
C7_OnlyNetmetrExceptionsLeave ==
    pc = "raised" => exc \in NetmetrExceptions

----------------------------------------------------------------------------
(* C8 *)

\* the place of an event in one attempt
Rank(ev) ==
    CASE ev \in {"enter", "settings", "sync", "history"} -> 0
      [] ev = "testRequest" -> 1
      [] ev = "ping"        -> 2
      [] ev = "rmbt"        -> 3
      [] ev = "flows"       -> 4
      [] ev = "result"      -> 5
      [] ev = "exit"        -> 6

----------------------------------------------------------------------------
(* C9 *)

----------------------------------------------------------------------------
(* C10 *)

\* the address use_proto bound for attempt n
ScopeAddress(n) == {log[k].address : k \in {j \in At("enter") : log[j].att = n}}

----------------------------------------------------------------------------
(* Reading the exchange of the constructor *)

\* the constructor has just run: reply holds its settings exchange
Bootstrapping == reply # Nothing /\ The(reply).path = "settings"

\* the settings request was answered by a JSON object
BootAnswered == Bootstrapping /\ The(reply).kind = "object"

\* the scenario: no prior identity, settings[0] = {uuid: 'abc123', urls: {}}
BootScenario ==
    /\ BootAnswered
    /\ The(reply).uuid = None
    /\ The(reply).obj = [error |-> Absent, has_settings |-> TRUE, uuid |-> "abc123",
                         control_ipv4_only |-> Absent, control_ipv6_only |-> Absent]

----------------------------------------------------------------------------
(* C11: after a successful bootstrap the identity is the uuid of the       *)
(* response when that is non-empty and the caller-supplied uuid otherwise, *)
(* and the IPv4 / IPv6 overrides are the response's control_ipv4_only /    *)
(* control_ipv6_only, None when the response has none.  With no prior      *)
(* identity and settings[0] = {uuid: 'abc123', urls: {}} the bootstrap     *)
(* succeeds with identity 'abc123' and no override.                        *)
C11_BootstrapIdentityAndOverrides ==
    /\ (Bootstrapping /\ pc = "idle") =>
          LET r == The(reply)
          IN  /\ r.kind = "object"
              /\ uuid = IF r.obj.uuid \notin {Absent, None, ""} THEN r.obj.uuid
                        ELSE r.uuid
              /\ url_ipv4 = IF r.obj.control_ipv4_only = Absent THEN None
                            ELSE r.obj.control_ipv4_only
              /\ url_ipv6 = IF r.obj.control_ipv6_only = Absent THEN None
                            ELSE r.obj.control_ipv6_only
    /\ BootScenario =>
          pc = "idle" /\ uuid = "abc123" /\ url_ipv4 = None /\ url_ipv6 = None

C11_Witness ==
    /\ BootScenario
    /\ pc = "idle" /\ uuid = "abc123" /\ url_ipv4 = None /\ url_ipv6 = None

----------------------------------------------------------------------------
(* C12: the bootstrap fails with ControlServerError whenever the response  *)
(* holds no identity, whenever the transport fails and whenever the JSON   *)
(* response has a non-empty error field; no usable session results.        *)
C12_BootstrapFailsWithControlServerError ==
    LET r == The(reply)
    IN  ( /\ Bootstrapping
          /\ \/ r.kind \in {"HTTPError", "URLError"}
             \/ r.kind = "object" /\ r.obj.error \notin {Absent, ""}
             \/ r.kind = "object" /\ ( \/ ~r.obj.has_settings
                                       \/ r.obj.uuid \in {Absent, ""} ) )
        => (pc = "ctor_raised" /\ exc = ControlServerError)

----------------------------------------------------------------------------
(* Reading the exchange of a verb called outside measure() *)

\* the positions of log holding a request sent through send_request alone
RequestsSent ==
    {k \in 1..Len(log) : log[k].ev \in {"testRequest", "result", "sync", "history"}}

VerbEnded == pc \in {"verb_returned", "verb_raised"}
SyncCalled == VerbEnded /\ reply # Nothing /\ The(reply).path = "sync"
HistoryCalled == VerbEnded /\ reply # Nothing /\ The(reply).path = "history"

\* the reply is one send_request has to refuse: an HTTP error status, a
\* connection failure, a body that is not JSON, a non-empty error field
Refusable(r) ==
    \/ r.kind \in {"HTTPError", "URLError", "invalid"}
    \/ r.kind = "object" /\ r.obj.error \notin {Absent, ""}

----------------------------------------------------------------------------
(* C13: every failure of send_request to obtain a valid, error-free        *)
(* response (HTTP error status, connection failure, a body that is not     *)
(* JSON, a non-empty error field) is raised as ControlServerError and as   *)
(* no other kind; a response without error is returned to the verb.        *)
C13_SendRequestRaisesOnlyControlServerError ==
    /\ \A k \in RequestsSent : log[k].exc \in {"none", ControlServerError}
    /\ (SyncCalled \/ HistoryCalled) =>
          /\ Refusable(The(reply)) <=> log[1].exc = ControlServerError
          /\ ~Refusable(The(reply)) <=> log[1].exc = "none"

----------------------------------------------------------------------------
(* C14: request_settings fails with ControlServerError on transport        *)
(* failure and when the response lacks a consumed field; a malformed       *)
(* settings response never reaches the measurement step.                   *)
C14_MalformedSettingsRefused ==
    /\ (pc = "attempt" /\ test_settings # Nothing) =>
          The(test_settings).missing = {}
    /\ (pc = "attempt" /\ step \in {"ping", "speed", "flows", "upload"}) =>
          The(test_settings).missing = {}

----------------------------------------------------------------------------
(* C15: download_sync_code returns the sync code of the response when it   *)
(* is non-empty and fails with ControlServerError whenever the server      *)
(* marks an error or returns no or an empty code; no response makes it     *)
(* return an empty value or fail with another exception kind.              *)
C15_SyncCodeOrControlServerError ==
    SyncCalled =>
        LET r == The(reply)
        IN  /\ pc = "verb_returned" =>
                  /\ r.kind = "object"
                  /\ retval = Some(r.obj.sync_code)
                  /\ r.obj.sync_code \notin {Absent, None, ""}
            /\ (pc = "verb_raised" /\ r.kind = "object") => exc = ControlServerError
            /\ ( r.kind = "object" /\
                  ( \/ r.obj.error \notin {Absent, ""}
                    \/ r.obj.sync # "entry"
                    \/ r.obj.sync_code \in {Absent, ""} ) )
                => (pc = "verb_raised" /\ exc = ControlServerError)

----------------------------------------------------------------------------
(* C16: no testRequest, result, history or sync request is sent by a       *)
(* session before its bootstrap has succeeded: the constructor performs    *)
(* the bootstrap, and when it fails no verb can be invoked on the session. *)
C16_NoRequestBeforeBootstrap ==
    /\ pc \in {"new", "ctor_raised"} =>
          \A k \in 1..Len(log) : log[k].ev = "settings"
    /\ pc = "idle" =>
          /\ Len(log) = 1
          /\ log[1].ev = "settings" /\ log[1].exc = "none"
    /\ pc \notin {"new", "ctor_raised"} => uuid \notin {Absent, None, ""}
    /\ pc = "ctor_raised" => ~ENABLED Next

C16_Witness ==
    /\ pc = "ctor_raised"
    /\ exc = ControlServerError
    /\ Len(log) = 1 /\ log[1].ev = "settings"

----------------------------------------------------------------------------
(* C17: each invocation of a control-server verb (bootstrap,               *)
(* request_settings, upload_result, download_history, download_sync_code)  *)
(* sends exactly one HTTP request and never re-sends it after a failure,   *)
(* neither inside the verb nor inside the same family attempt.             *)
RequestsOf(ev, n) == {k \in At(ev) : log[k].att = n}

C17_OneRequestPerVerbCall ==
    /\ \A n \in 1..natt :
          /\ Cardinality(RequestsOf("testRequest", n)) <= 1
          /\ Cardinality(RequestsOf("result", n)) <= 1
          /\ ExitOf(n) # {} => Cardinality(RequestsOf("testRequest", n)) = 1
          /\ ExitOf(n) = {"none"} => Cardinality(RequestsOf("result", n)) = 1
    /\ \A k \in At("testRequest") \cup At("result") :
          (log[k].exc # "none" /\ k < Len(log)) =>
              (log[k + 1].ev = "exit" /\ log[k + 1].att = log[k].att)
    /\ (pc \in {"idle", "ctor_raised"} \/ VerbEnded) =>
          /\ Len(log) = 1
          /\ log[1].ev \in {"settings", "sync", "history"}

C17_Witness ==
    \E k \in At("testRequest") :
        /\ log[k].exc = ControlServerError
        /\ ExitOf(log[k].att) = {ControlServerError}
        /\ RequestsOf("testRequest", log[k].att) = {k}

----------------------------------------------------------------------------
(* Reading the frame of PingMeasurement.measure *)

PingDone == ping_frame # Nothing /\ ping_frame.at = "done"

\* the launched probes that yielded a latency / whose output was not parsed
Yielding == {j \in 1..Len(ping_frame.issued) :
                ping_frame.issued[j].exit = 0 /\ ping_frame.issued[j].decodable}
Unparsed == {j \in 1..Len(ping_frame.issued) :
                ping_frame.issued[j].exit = 0 /\ ~ping_frame.issued[j].decodable}

----------------------------------------------------------------------------
----------------------------------------------------------------------------
(* Reading a call of SpeedMeasurement.measure *)

SpeedRan == speed_call # Nothing /\ speed_call.ran

\* the piece is the text of a JSON object, up to its closing brace, that
\* holds both throughput fields; its text starts with other text or not
ObjectPiece(sg) == sg.open /\ sg.keys = ThroughputFields
\* the piece holds no "{": it is empty or other text
PlainPiece(sg) == ~sg.open

\* the object written in piece sg
ObjectOf(sg) == [res_dl_throughput_kbps |-> sg.dl, res_ul_throughput_kbps |-> sg.ul]

\* the output is a preamble followed by one JSON object holding both fields,
\* and no further object after it: the last piece is plain, the piece before
\* it ends with the object
PreambleThenObject(segs) ==
    /\ Len(segs) >= 2
    /\ PlainPiece(segs[Len(segs)])
    /\ ObjectPiece(segs[Len(segs) - 1])

----------------------------------------------------------------------------
(* C19: when the engine's output is an arbitrary non-JSON preamble         *)
(* followed by a single JSON object that holds res_dl_throughput_kbps and  *)
(* res_ul_throughput_kbps, SpeedMeasurement.measure returns that object;   *)
(* garbage{"res_dl_throughput_kbps":500,"res_ul_throughput_kbps":200}      *)
(* yields dl = 500 and ul = 200.                                           *)
C19_ObjectAfterPreambleReturned ==
    ( /\ SpeedRan
      /\ speed_call.launched /\ speed_call.decodable
      /\ PreambleThenObject(speed_call.segs) )
    => /\ speed_call.exc = "none"
       /\ speed_call.val =
             Some(ObjectOf(speed_call.segs[Len(speed_call.segs) - 1]))

(* C19, as the code has it: the object returned is the text between the    *)
(* first and the second "}" of the output.  When the preamble ends with    *)
(* its only "}" and a flat JSON object holding both fields follows, that   *)
(* object is returned: garbage}{"res_dl_throughput_kbps":500,              *)
(* "res_ul_throughput_kbps":200} yields dl = 500 and ul = 200.  When the   *)
(* preamble holds no "}", as in garbage{...}, the call fails with          *)
(* MeasurementError.                                                       *)
C19_ObjectAfterFirstBraceReturned ==
    (SpeedRan /\ speed_call.launched /\ speed_call.decodable) =>
        LET segs == speed_call.segs
        IN  /\ ( /\ Len(segs) >= 2
                  /\ ~segs[2].pre
                  /\ ObjectPiece(segs[2]) )
                => /\ speed_call.exc = "none"
                   /\ speed_call.val = Some(ObjectOf(segs[2]))
            /\ ( /\ Len(segs) = 2
                  /\ ObjectPiece(segs[1])
                  /\ PlainPiece(segs[2]) )
                => speed_call.exc = MeasurementError
            /\ speed_call.exc = "none" =>
                  /\ Len(segs) >= 2
                  /\ speed_call.val = Some(ObjectOf(segs[2]))

C19_Witness ==
    /\ SpeedRan
    /\ speed_call.launched /\ speed_call.decodable
    /\ Len(speed_call.segs) = 3
    /\ PlainPiece(speed_call.segs[3])
    /\ PlainPiece(speed_call.segs[1])
    /\ ObjectPiece(speed_call.segs[2]) /\ ~speed_call.segs[2].pre
    /\ speed_call.exc = "none"
    /\ speed_call.val = Some([res_dl_throughput_kbps |-> 500,
                              res_ul_throughput_kbps |-> 200])

----------------------------------------------------------------------------
(* C20: every failure in running or interpreting the engine (the binary    *)
(* cannot be launched, the output is not decodable text, the output holds  *)
(* no JSON object or no closing brace at all, the JSON is malformed) makes *)
(* SpeedMeasurement.measure fail with MeasurementError and with no other   *)
(* kind, so that measure() records the family as 'Failed'.                 *)
C20_EngineFailuresAreMeasurementErrors ==
    \A k \in At("rmbt") :
        /\ log[k].exc \in {"none", MeasurementError}
        /\ (log[k].exc # "none" /\ k < Len(log)) =>
              /\ log[k + 1].ev = "exit"
              /\ log[k + 1].proto \in DOMAIN result
              /\ result[log[k + 1].proto] = Failed

----------------------------------------------------------------------------
(* C21: if the parsed engine result lacks res_dl_throughput_kbps or        *)
(* res_ul_throughput_kbps, SpeedMeasurement.measure fails with             *)
(* MeasurementError naming a missing field; it returns a result only when  *)
(* both throughput fields are present.                                     *)

\* the text between the first two "}" was parsed as a JSON object
EngineResultParsed ==
    /\ SpeedRan
    /\ speed_call.launched /\ speed_call.decodable
    /\ Len(speed_call.segs) >= 2
    /\ speed_call.segs[2].open /\ ~speed_call.segs[2].pre

C21_MissingThroughputFieldRefused ==
    /\ EngineResultParsed =>
          LET keys == speed_call.segs[2].keys
              both == {"res_dl_throughput_kbps", "res_ul_throughput_kbps"}
          IN  /\ both \ keys # {} =>
                    /\ speed_call.exc = MeasurementError
                    /\ speed_call.val = Nothing
                    /\ speed_call.named \in both \ keys
              /\ both \ keys = {} => speed_call.exc = "none"
    /\ (SpeedRan /\ speed_call.exc = "none") =>
          /\ EngineResultParsed
          /\ speed_call.segs[2].keys =
                {"res_dl_throughput_kbps", "res_ul_throughput_kbps"}
          /\ DOMAIN The(speed_call.val) =
                {"res_dl_throughput_kbps", "res_ul_throughput_kbps"}

C21_Witness ==
    /\ EngineResultParsed
    /\ speed_call.segs[2].keys = {"res_dl_throughput_kbps"}
    /\ speed_call.exc = MeasurementError
    /\ speed_call.named = "res_ul_throughput_kbps"

----------------------------------------------------------------------------
(* Reading a call of import_speed_flows *)

FlowsRan == flows_call # Nothing /\ flows_call.ran
FlowsReturned == FlowsRan /\ flows_call.exc = "none" /\ flows_call.val # Nothing

\* the positions of the returned sequence holding samples of direction d,
\* thread n
RetainedOf(d, n) ==
    {j \in 1..Len(The(flows_call.val)) :
        The(flows_call.val)[j].direction = d /\ The(flows_call.val)[j].thread = n}

\* all positions of the returned sequence
Retained == 1..Len(The(flows_call.val))

----------------------------------------------------------------------------
(* C22: in the sequence returned by import_speed_flows any two samples     *)
(* with the same direction and thread have timestamps that differ by at    *)
(* least 30,000,000 ns, whatever the density and the order of the raw      *)
(* timestamps.                                                             *)
C22_RetainedSamplesApart ==
    FlowsReturned =>
        \A a, b \in Retained :
            LET x == The(flows_call.val)[a]
                y == The(flows_call.val)[b]
            IN  (a # b /\ x.direction = y.direction /\ x.thread = y.thread) =>
                    (x.time - y.time >= 30000000 \/ y.time - x.time >= 30000000)

\* a thread whose raw series is not in time order, with two samples kept
C22_Witness ==
    /\ FlowsReturned
    /\ flows_call.art.dl # Nothing
    /\ Len(The(flows_call.art.dl)) >= 1
    /\ LET series == The(flows_call.art.dl)[1]
       IN  /\ Len(series) = 3
           /\ series[1].t > series[2].t
    /\ Cardinality(RetainedOf("download", 0)) = 2

----------------------------------------------------------------------------
(* C23: when the flow artifact cannot be read or decoded at all (file      *)
(* missing, decompression failed, content not JSON, no res_details),       *)
(* import_speed_flows yields an empty sequence and raises nothing, so the  *)
(* result is uploaded with an empty speed_detail.                          *)
Unreadable(art) == ~art.openable \/ ~art.valid_json \/ ~art.has_res_details

C23_UnreadableArtifactGivesEmptySequence ==
    (FlowsRan /\ Unreadable(flows_call.art)) =>
        /\ flows_call.exc = "none"
        /\ flows_call.val = Some(<<>>)

----------------------------------------------------------------------------
(* C24: on every exit path of import_speed_flows (artifact parsed, a       *)
(* direction missing, artifact unreadable or undecodable) the removal of   *)
(* both temporary files, the engine config file and the flow file, has     *)
(* been attempted before the function returns or raises.                   *)
C24_TemporaryFilesRemovedOnEveryExit ==
    FlowsRan => flows_call.removed = {"flows_file", "config_file"}

----------------------------------------------------------------------------
(* C25: when the flow artifact lacks one direction, import_speed_flows     *)
(* does not fail and still returns the thinned samples of the other        *)
(* direction; thinning is applied to every (direction, thread) pair on its *)
(* own, so samples of one thread never suppress samples of another.        *)

\* the time of the sample kept last before position k, when K are the
\* positions kept
LastKept(series, K, k) ==
    LET before == {j \in K : j < k}
    IN  IF before = {} THEN 0
        ELSE series[CHOOSE j \in before : \A m \in before : m <= j].t

\* the positions of a series kept when the series is thinned alone
KeptAlone(series) ==
    CHOOSE K \in SUBSET (1..Len(series)) :
        \A k \in 1..Len(series) :
            k \in K <=> series[k].t - LastKept(series, K, k) > 30000000

\* the returned samples of (d, n) are the samples of K, in the order of the
\* series
ReturnsExactly(d, n, series, K) ==
    LET Mine(x) == x.direction = d /\ x.thread = n
        sub == SelectSeq(The(flows_call.val), Mine)
    IN  /\ Len(sub) = Cardinality(K)
        /\ \A j \in 1..Len(sub) :
              LET k == CHOOSE m \in K : Cardinality({q \in K : q <= m}) = j
              IN  sub[j].time = series[k].t /\ sub[j].bytes = series[k].b

DirectionHandled(dir, d) ==
    IF dir = Nothing
    THEN \A j \in Retained : The(flows_call.val)[j].direction # d
    ELSE /\ \A n \in 1..Len(The(dir)) :
              ReturnsExactly(d, n - 1, The(dir)[n], KeptAlone(The(dir)[n]))
         /\ \A j \in Retained :
              The(flows_call.val)[j].direction = d =>
                  The(flows_call.val)[j].thread \in 0..(Len(The(dir)) - 1)

C25_DirectionsAndThreadsIndependent ==
    (FlowsRan /\ ~Unreadable(flows_call.art)) =>
        /\ FlowsReturned
        /\ DirectionHandled(flows_call.art.dl, "download")
        /\ DirectionHandled(flows_call.art.ul, "upload")

\* the artifact lacks the upload direction and holds two download threads
\* of which each has samples kept
C25_Witness ==
    /\ FlowsReturned
    /\ ~Unreadable(flows_call.art)
    /\ flows_call.art.ul = Nothing
    /\ flows_call.art.dl # Nothing
    /\ Len(The(flows_call.art.dl)) = 2
    /\ RetainedOf("download", 0) # {}
    /\ RetainedOf("download", 1) # {}

----------------------------------------------------------------------------
(* Reading a call of measure_bind *)

BindCalled == bind_ip # Nothing
BindEnded == BindCalled /\ pc \in {"bind_returned", "bind_raised"}

\* the string is an address of the host
BindableAddress(ip) == ip.family \in {"IPv4", "IPv6"} /\ ip.local

----------------------------------------------------------------------------
(* C26: measure_bind with a string that is not a valid IPv4 / IPv6         *)
(* address, or with a valid address that cannot be bound locally, fails    *)
(* with ConfigError before any request is sent; the error is never turned  *)
(* into a family outcome, retried, or replaced by a default family.        *)
C26_BadBindAddressIsConfigError ==
    (BindCalled /\ ~BindableAddress(The(bind_ip))) =>
        /\ pc = "bind_raised"
        /\ exc = "ConfigError"
        /\ log = <<>>
        /\ result = <<>>

----------------------------------------------------------------------------
(* C27: measure_bind with a valid local address performs exactly one       *)
(* family attempt, in the family of the address, with no mode-based        *)
(* selection and no contingency attempt; if that attempt fails the error   *)
(* is raised to the caller.                                                *)
C27_BindMeasuresOneFamily ==
    (BindCalled /\ BindableAddress(The(bind_ip))) =>
        /\ natt = 1
        /\ Cardinality(At("enter")) = 1
        /\ \A k \in At("enter") :
              /\ log[k].proto = The(bind_ip).family
              /\ log[k].phase = "bind"
        /\ \A k \in 1..Len(log) : log[k].proto = The(bind_ip).family
        /\ mode = None /\ result = <<>>
        /\ pc \in {"attempt", "bind_returned", "bind_raised"}
        /\ pc = "attempt" => At("exit") = {}
        /\ pc = "bind_raised" => (exc # "none" /\ ExitOf(1) = {exc})
        /\ pc = "bind_returned" =>
              /\ ExitOf(1) = {"none"}
              /\ simple_result # Nothing

C27_Witness ==
    /\ BindCalled
    /\ The(bind_ip) = [family |-> "IPv6", local |-> TRUE]
    /\ pc = "bind_raised"
    /\ exc = MeasurementError
    /\ Cardinality(At("enter")) = 1
    /\ At("rmbt") # {}

----------------------------------------------------------------------------
(* C28: in upload_result the flow samples (speed_detail) are added to the  *)
(* request only after the request has been handed to the logger: the       *)
(* logged result request never contains speed_detail, the request sent     *)
(* always does.                                                            *)
Uploaded == payload_call # Nothing /\ payload_call.uploaded

C28_SpeedDetailSentNotLogged ==
    Uploaded =>
        /\ payload_call.sent # Nothing
        /\ "speed_detail" \in DOMAIN The(payload_call.sent)
        /\ The(payload_call.sent).speed_detail = payload_call.speed_array
        /\ payload_call.logged # Nothing =>
              /\ "speed_detail" \notin DOMAIN The(payload_call.logged)
              /\ DOMAIN The(payload_call.logged)
                    = DOMAIN The(payload_call.sent) \ {"speed_detail"}
              /\ \A k \in DOMAIN The(payload_call.logged) :
                    The(payload_call.logged)[k] = The(payload_call.sent)[k]

\* a request with flow samples was logged and sent
C28_Witness ==
    /\ Uploaded
    /\ payload_call.logged # Nothing
    /\ payload_call.speed_array # Nothing
    /\ The(payload_call.speed_array) # <<>>

----------------------------------------------------------------------------
(* C30: generate_test_result is a pure function of its inputs: two calls   *)
(* with the same ping result, speed result and settings token produce      *)
(* identical payloads in every environment; it performs no I/O and reads   *)
(* no state outside its inputs.                                            *)
C30_SameInputsSamePayload ==
    (payload_call # Nothing /\ Len(payload_call.payloads) = 2) =>
        payload_call.payloads[1] = payload_call.payloads[2]

----------------------------------------------------------------------------
----------------------------------------------------------------------------
(* C31: PingMeasurement.measure issues exactly count probes one after      *)
(* another, each probe finished before the next is started, and a delay    *)
(* step separates every two consecutive probes, whether the earlier probe  *)
(* succeeded or failed.                                                    *)
PingLoopLeft ==
    /\ ping_frame # Nothing
    /\ ping_frame.installed
    /\ ping_frame.k > ping_frame.count

C31_DelayBetweenProbes ==
    ping_frame # Nothing =>
        /\ PingLoopLeft => Len(ping_frame.issued) = ping_frame.count
        /\ \A j \in 1..(Len(ping_frame.steps) - 1) :
              ping_frame.steps[j] = "probe" => ping_frame.steps[j + 1] = "sleep"
----------------------------------------------------------------------------
(* C32: when PingMeasurement.measure succeeds it returns the minimum of    *)
(* the latencies (in nanoseconds) of the probes that were decoded, and the *)
(* outcome (value or failure) is the same for every ordering of the same   *)
(* multiset of probe outcomes.                                             *)
PingPairRan == ping_pair # Nothing /\ ping_pair.ran
DecodedNs ==
    {ping_pair.probes[j].ms * 1000000 :
        j \in {n \in 1..Len(ping_pair.probes) :
                  ping_pair.probes[n].exit = 0 /\ ping_pair.probes[n].decodable}}

C32_MinimumWhateverTheOrder ==
    PingPairRan =>
        /\ ping_pair.first = ping_pair.second
        /\ ping_pair.first.exc = "none" =>
              /\ ping_pair.first.val \in DecodedNs
              /\ \A v \in DecodedNs : ping_pair.first.val <= v

\* a probe that cannot be parsed comes after a decoded one in one order and
\* before it in the other
C32_Witness ==
    /\ PingPairRan
    /\ ping_pair.installed
    /\ Len(ping_pair.probes) = 2
    /\ ping_pair.probes[1].decodable
    /\ ping_pair.probes[2].exit = 0 /\ ~ping_pair.probes[2].decodable
    /\ ping_pair.order = <<2, 1>>
    /\ ping_pair.first.exc = MeasurementError

----------------------------------------------------------------------------
(* C33: the active address of a session is never absent (None) at the      *)
(* moment a request URL is built, including inside a use_proto scope for a *)
(* family for which the bootstrap response supplied no endpoint override.  *)
RequestEvents == {"testRequest", "result", "sync", "history"}

C33_AddressPresentWhenUrlBuilt ==
    \A k \in 1..Len(log) :
        log[k].ev \in RequestEvents => log[k].address # None

----------------------------------------------------------------------------
(* C34: a family is reported as a success only if its result upload was    *)
(* acknowledged: when ping and speed succeed but upload_result raises      *)
(* ControlServerError, the family is recorded as 'Not available', the      *)
(* attempt does not count as measured, and under prefer_4 / prefer_6 the   *)
(* contingency family is then attempted.                                   *)
UploadRefused == {r \in At("result") : log[r].exc = ControlServerError}
Acknowledged == {r \in At("result") : log[r].exc = "none"}

----------------------------------------------------------------------------
(* C38: in one measure() call each family is attempted at most once and at *)
(* most two attempts are made in total; when a contingency attempt is made *)
(* it is always for the family that was not attempted directly.            *)
C38_EachFamilyAtMostOnce ==
    mode # None =>
        /\ natt <= 2
        /\ Cardinality(At("enter")) = natt
        /\ \A a, b \in At("enter") : log[a].proto = log[b].proto => a = b
        /\ \A c \in At("enter") :
              log[c].phase = "contingency" =>
                  /\ \E d \in At("enter") : log[d].phase = "direct" /\ d < c
                  /\ \A d \in At("enter") :
                        log[d].phase = "direct" => log[d].proto # log[c].proto

\* two attempts, the second one the contingency after a direct failure
C38_Witness ==
    /\ CallEnded
    /\ natt = 2
    /\ \E d, c \in At("enter") :
          /\ log[d].phase = "direct" /\ log[d].proto = IPv4
          /\ log[c].phase = "contingency" /\ log[c].proto = IPv6

----------------------------------------------------------------------------
(* C39: for each direction and thread the retained flow samples are        *)
(* exactly the greedy selection in input order with baseline 0: a sample   *)
(* is retained iff its timestamp exceeds the timestamp of the last         *)
(* retained sample of that thread (0 when none was retained yet) by more   *)
(* than 30,000,000 ns, so a sample with timestamp at most 30,000,000 is    *)
(* never the first retained one; thread indices count flows from 0         *)
(* separately for each direction.                                          *)

\* the samples returned for direction d, thread n, in the order returned
ReturnedFor(d, n) ==
    LET Mine(x) == x.direction = d /\ x.thread = n
    IN  SelectSeq(The(flows_call.val), Mine)

\* walking the series of thread n: sample k is the next one returned iff it
\* is more than 30,000,000 ns after the one returned before it
GreedyWalk(d, n, series) ==
    LET out == ReturnedFor(d, n)
        \* the number of samples of series[1..k] that were returned
        Taken[k \in 0..Len(series)] ==
            IF k = 0 THEN 0
            ELSE LET base == IF Taken[k - 1] = 0 THEN 0 ELSE out[Taken[k - 1]].time
                 IN  IF series[k].t - base > 30000000
                     THEN Taken[k - 1] + 1 ELSE Taken[k - 1]
    IN  /\ Taken[Len(series)] = Len(out)
        /\ \A k \in 1..Len(series) :
              Taken[k] > Taken[k - 1] =>
                  /\ Taken[k] <= Len(out)
                  /\ out[Taken[k]].time = series[k].t
                  /\ out[Taken[k]].bytes = series[k].b
        /\ Len(out) > 0 => out[1].time > 30000000

DirectionGreedy(dir, d) ==
    LET threads == {The(flows_call.val)[j].thread :
                        j \in {m \in Retained : The(flows_call.val)[m].direction = d}}
    IN  IF dir = Nothing THEN threads = {}
        ELSE /\ threads \subseteq 0..(Len(The(dir)) - 1)
             /\ \A n \in 1..Len(The(dir)) : GreedyWalk(d, n - 1, The(dir)[n])

C39_GreedySelectionPerThread ==
    (FlowsRan /\ ~Unreadable(flows_call.art)) =>
        /\ flows_call.val # Nothing
        /\ DirectionGreedy(flows_call.art.dl, "download")
        /\ DirectionGreedy(flows_call.art.ul, "upload")

\* two download threads and one upload thread; the first download thread
\* starts with a sample at 30,000,000 ns, which is passed over, and the
\* upload samples carry thread 0
C39_Witness ==
    /\ FlowsReturned
    /\ flows_call.art.dl # Nothing /\ flows_call.art.ul # Nothing
    /\ Len(The(flows_call.art.dl)) = 2
    /\ Len(The(flows_call.art.dl)[1]) = 2
    /\ The(flows_call.art.dl)[1][1].t = 30000000
    /\ Len(ReturnedFor("download", 0)) = 1
    /\ ReturnedFor("download", 0)[1].time = 70000000
    /\ Len(ReturnedFor("download", 1)) > 0
    /\ Len(ReturnedFor("upload", 0)) > 0
    /\ Len(ReturnedFor("upload", 2)) = 0

----------------------------------------------------------------------------
(* C35: SpeedMeasurement.measure eventually returns whenever the engine    *)
(* would write a finite amount to its two output streams and exit: with    *)
(* pipes of bounded capacity, no amount of primary-stream output written   *)
(* before exit can leave the runner (which reads only the secondary stream *)
(* until the process has exited) and the engine blocked on each other      *)
(* forever.                                                                *)
C35_RunnerEventuallyReturns ==
    <>(engine # Nothing /\ engine.at = "done")

----------------------------------------------------------------------------
(* C36: every progress line the engine writes to its secondary output      *)
(* stream before exiting is logged by SpeedMeasurement.measure, for every  *)
(* interleaving of the engine's writes and exit with the runner's poll /   *)
(* readline loop.                                                          *)
LinesWritten ==
    Cardinality({n \in 1..(engine.j - 1) : engine.script[n] = "err"})

C36_EveryProgressLineLogged ==
    (engine # Nothing /\ engine.at = "done") => engine.logged = LinesWritten

----------------------------------------------------------------------------
(* C37: after any family attempt has ended, whether it succeeded or failed *)
(* at the ping, speed, flow-import or upload step, the temporary engine    *)
(* config file and flow file created for that attempt no longer exist.     *)
C37_NoTemporaryFilesAfterAttempt ==
    pc # "attempt" => tmp_files = {}

----------------------------------------------------------------------------
(* C40: Netmetr.download_history leaves the stored history file unchanged  *)
(* and raises nothing when the history request fails with                  *)
(* ControlServerError; when the request succeeds the file is replaced by   *)
(* writing a temporary file and renaming it, so at every moment the        *)
(* history file holds either the complete previous document or the         *)
(* complete new one, never a partial write.                                *)
C40_HistoryFileReplacedWhole ==
    hist # Nothing =>
        /\ hist.fs["hist"] \in HistoryDocs \cup {Absent}
        /\ \/ hist.fs["hist"] = hist.before
           \/ /\ hist.renamed
              /\ hist.received \in HistoryDocs
              /\ hist.fs["hist"] = hist.received
        /\ hist.received = ControlServerError =>
              /\ hist.at = "ended"
              /\ hist.exc = "none"
              /\ hist.fs["hist"] = hist.before
        /\ (hist.at = "ended" /\ hist.renamed) => hist.fs["hist"] = hist.received

\* document A was stored, document B was received and has replaced it
C40_Witness ==
    /\ hist # Nothing
    /\ hist.at = "ended"
    /\ hist.before = "doc A"
    /\ hist.received = "doc B"
    /\ hist.fs["hist"] = "doc B"


====
